---- MODULE Spec2Model ----
(***************************************************************************)
(* Combat resolution core of AzhaqCom/theone.                              *)
(*                                                                         *)
(*   CombatService      (services: initiative, attack resolution, outcome) *)
(*   CombatTurnManager  (React component: the two effects and the delayed  *)
(*                       continuations that drive the turns)               *)
(***************************************************************************)
EXTENDS Integers, Sequences, FiniteSets, TLC

(***************************************************************************)
(* Bounds of the model.                                                    *)
(***************************************************************************)
MaxEnemies == 2
MaxHP == 1
MaxTargets == 2
MaxSheetHP == 3
MaxHitDice == 2
MaxPotions == 2
MaxPlaced == 21
MaxOrder == 4

(***************************************************************************)
(* Program constants.                                                      *)
(***************************************************************************)
D20Sides == 20

Max(a, b) == IF a >= b THEN a ELSE b
Min(a, b) == IF a <= b THEN a ELSE b

Has(o, f) == f \in DOMAIN o

\* utils/calculations getModifier: floor((score - 10) / 2)
getModifier(score) == (score - 10) \div 2

\* Math.ceil(level / 4)
CeilDiv4(level) == (level + 3) \div 4

\* rollD20: Math.floor(Math.random() * 20) + 1
rollD20 == 1..D20Sides

(***************************************************************************)
(* rollDamage: the descriptor is a string, modelled as its characters.     *)
(* match = damageString.match(/(\d+)d(\d+)(\+(\d+))?/)                      *)
(***************************************************************************)
Digits == <<"0", "1", "2", "3", "4", "5", "6", "7", "8", "9">>
IsDigit(c) == \E k \in 1..10 : Digits[k] = c
DigitVal(c) == (CHOOSE k \in 1..10 : Digits[k] = c) - 1

\* end of the maximal run of digits of s that starts at i (i - 1 when s[i] is no digit)
RECURSIVE RunEnd(_, _)
RunEnd(s, i) == IF i <= Len(s) /\ IsDigit(s[i]) THEN RunEnd(s, i + 1) ELSE i - 1

\* parseInt of the digits s[i..j]
RECURSIVE parseInt(_, _, _)
parseInt(s, i, j) == IF j < i THEN 0 ELSE 10 * parseInt(s, i, j - 1) + DigitVal(s[j])

\* \d+d\d+ matches at i: the greedy run of digits from i is followed by d and a digit
MatchesAt(s, i) ==
    /\ i <= Len(s) /\ IsDigit(s[i])
    /\ LET j == RunEnd(s, i)
       IN  j + 2 <= Len(s) /\ s[j + 1] = "d" /\ IsDigit(s[j + 2])

HasMatch(s) == \E i \in 1..Len(s) : MatchesAt(s, i)

\* the leftmost match, as the regular expression engine finds it
MatchStart(s) == CHOOSE i \in 1..Len(s) : MatchesAt(s, i) /\ \A k \in 1..(i - 1) : ~MatchesAt(s, k)

numDice(s) == LET i == MatchStart(s) IN parseInt(s, i, RunEnd(s, i))

dieSize(s) == LET i == MatchStart(s)
                  j == RunEnd(s, i)
              IN  parseInt(s, j + 2, RunEnd(s, j + 2))

\* parseInt(bonus) || 0
bonusOf(s) == LET i == MatchStart(s)
                  j == RunEnd(s, i)
                  e == RunEnd(s, j + 2)
              IN  IF e + 2 <= Len(s) /\ s[e + 1] = "+" /\ IsDigit(s[e + 2])
                  THEN parseInt(s, e + 2, RunEnd(s, e + 2))
                  ELSE 0

\* Math.floor(Math.random() * dieSize) + 1
DieFaces(m) == IF m = 0 THEN {1} ELSE 1..m

RECURSIVE SumSeq(_)
SumSeq(q) == IF q = <<>> THEN 0 ELSE Head(q) + SumSeq(Tail(q))

\* the sequences of die results the random source can give for a descriptor
DiceFor(s) == IF HasMatch(s) THEN [1..numDice(s) -> DieFaces(dieSize(s))] ELSE {<<>>}

\* rollDamage with the die results dice
rollDamage(s, dice) == IF ~HasMatch(s) THEN 0 ELSE SumSeq(dice) + bonusOf(s)

(***************************************************************************)
(* JavaScript values: an object is a record, an absent field is a field    *)
(* outside its DOMAIN, null is the record Null.                            *)
(***************************************************************************)
Null == [isNull |-> TRUE]
Truthy(o) == ~Has(o, "isNull")

\* a field of a record that may be undefined
FieldOr(o, f) == IF Has(o, f) THEN o[f] ELSE "undefined"

\* throw new Error(message), or an error the runtime throws: the call returns nothing
Error(message) == [error |-> message]

\* a number a method returns
Number(n) == [number |-> n]

\* NaN, the value of an arithmetic expression one operand of which is undefined
NaN == [isNaN |-> TRUE]

\* character.level ? Math.ceil(character.level / 4) + 1 : 2
proficiencyBonus(character) ==
    IF Has(character, "level") /\ character.level # 0
    THEN CeilDiv4(character.level) + 1
    ELSE 2

\* the governing stat of a weapon
weaponStat(weapon) ==
    IF Has(weapon, "stat") THEN weapon.stat
    ELSE IF \/ (Has(weapon, "category") /\ weapon.category = "ranged")
            \/ (Has(weapon, "type") /\ weapon.type = "ranged")
            \/ (Has(weapon, "range") /\ weapon.range > 1)
         THEN "dexterite"
         ELSE "force"

getAttackBonus(character, weapon) ==
    IF Has(weapon, "attackBonus") THEN weapon.attackBonus
    ELSE IF ~Has(character, "stats") THEN 0
    ELSE IF ~Has(character.stats, weaponStat(weapon)) THEN proficiencyBonus(character)
    ELSE getModifier(character.stats[weaponStat(weapon)]) + proficiencyBonus(character)

(***************************************************************************)
(* services/CombatService.js, the CombatService that CombatTurnManager     *)
(* imports, has a getAttackBonus of its own.                               *)
(***************************************************************************)
\* weapon.range > 5 ? character.stats.dexterite : character.stats.force
rangeStat(weapon) ==
    IF Has(weapon, "range") /\ weapon.range > 5 THEN "dexterite" ELSE "force"

\* Math.ceil(character.level / 4) + 1 and getModifier(score) are NaN when the level
\* or the score is undefined
bonusIsNaN(character, weapon) ==
    ~Has(character, "level") \/ ~Has(character.stats, rangeStat(weapon))

\* getAttackBonus of services/CombatService.js; without stats the property read throws
CombatService_getAttackBonus(character, weapon) ==
    IF ~Has(character, "stats") THEN Error("TypeError")
    ELSE IF bonusIsNaN(character, weapon) THEN NaN
    ELSE getModifier(character.stats[rangeStat(weapon)]) + (CeilDiv4(character.level) + 1)

\* a spell attack bonus that leaves the spellcasting ability out
getSpellAttackBonus_NoAbility(caster) == proficiencyBonus(caster)

getSpellAttackBonus(caster) ==
    IF ~Has(caster, "spellcasting") \/ ~Has(caster.spellcasting, "ability")
    THEN proficiencyBonus(caster)
    ELSE LET ability == caster.spellcasting.ability
             score == IF Has(caster.stats, ability) /\ caster.stats[ability] # 0
                      THEN caster.stats[ability] ELSE 10
         IN  getModifier(score) + proficiencyBonus(caster)

\* const criticalHit = attackRoll === 20
criticalHit(attackRoll) == attackRoll = 20

\* a hit decision that needs the total to exceed the armor class
isHit_Strict(attackRoll, bonus, target) ==
    \/ (Has(target, "ac") /\ attackRoll + bonus > target.ac)
    \/ attackRoll = 20

\* const hit = totalAttack >= target.ac || criticalHit   (no ac: the comparison is false)
isHit(attackRoll, bonus, target) ==
    \/ (Has(target, "ac") /\ attackRoll + bonus >= target.ac)
    \/ criticalHit(attackRoll)

\* a critical hit that leaves the damage as rolled
critDamage_NoDouble(attackRoll, damage) == damage

\* if (criticalHit) damage *= 2
critDamage(attackRoll, damage) == IF criticalHit(attackRoll) THEN damage * 2 ELSE damage

isDefeated(character) == character.currentHP <= 0

\* the log's category of a message: 'info' when addCombatMessage is given no category
addCombatMessage(m) == IF m.type = "default" THEN "info" ELSE m.type

\* a narrative message: its category, whom it names, the damage it reports
Msg(type, name, damage) == [type |-> type, name |-> name, damage |-> damage]

(***************************************************************************)
(* executeAttack: targets.forEach, one roll r = [d20, dice] per target.    *)
(* The field drawn of a result is the list of the calls made to the random *)
(* source.                                                                 *)
(***************************************************************************)
attackTarget(attacker, weapon, target, r, results) ==
    LET attackBonus == getAttackBonus(attacker, weapon)
        totalAttack == r.d20 + attackBonus
        damage == critDamage(r.d20, rollDamage(weapon.damage, r.dice))
    IN  IF isHit(r.d20, attackBonus, target)
        THEN [results EXCEPT
                !.messages = Append(@, Msg(IF criticalHit(r.d20) THEN "critical" ELSE "hit",
                                           target.name, damage)),
                !.damage = Append(@, [targetId |-> target.id, damage |-> damage]),
                !.drawn = @ \o <<"rollD20", "rollDamage">>]
        ELSE [results EXCEPT
                !.messages = Append(@, Msg("miss", target.name, 0)),
                !.drawn = Append(@, "rollD20")]

RECURSIVE executeAttack(_, _, _, _, _)
executeAttack(attacker, weapon, targets, rolls, results) ==
    IF targets = <<>> THEN results
    ELSE executeAttack(attacker, weapon, Tail(targets), Tail(rolls),
                       attackTarget(attacker, weapon, Head(targets), Head(rolls), results))

\* results of executePlayerAction before the action is resolved; drawn is not a
\* field of the code's object: it lists the calls of rollD20 and rollDamage made
emptyResults == [damage |-> <<>>, effects |-> <<>>, messages |-> <<>>, drawn |-> <<>>]

(***************************************************************************)
(* checkCombatEnd                                                          *)
(***************************************************************************)
\* an outcome check that looks at the enemies first
checkCombatEnd_VictoryFirst(playerCharacter, playerCompanion, enemies) ==
    IF \A k \in 1..Len(enemies) : enemies[k].currentHP <= 0 THEN "victory"
    ELSE IF /\ playerCharacter.currentHP <= 0
            /\ (Has(playerCompanion, "isNull") \/ playerCompanion.currentHP <= 0)
         THEN "defeat"
    ELSE "null"

checkCombatEnd(playerCharacter, playerCompanion, enemies) ==
    LET playerDefeated == isDefeated(playerCharacter)
        companionDefeated == IF Truthy(playerCompanion) THEN isDefeated(playerCompanion) ELSE TRUE
        allEnemiesDefeated == \A k \in 1..Len(enemies) : isDefeated(enemies[k])
    IN  IF playerDefeated /\ companionDefeated THEN "defeat"
        ELSE IF allEnemiesDefeated THEN "victory"
        ELSE "null"

(***************************************************************************)
(* rollInitiative: combatants.sort(compare), a stable sort                 *)
(***************************************************************************)
\* a comparator that puts the lowest initiative first
compare_Ascending(a, b) ==
    IF b.initiative = a.initiative
    THEN IF a.type = "player" THEN -1
         ELSE IF b.type = "player" THEN 1
         ELSE IF a.type = "companion" THEN -1
         ELSE IF b.type = "companion" THEN 1
         ELSE 0
    ELSE a.initiative - b.initiative

compare(a, b) ==
    IF b.initiative = a.initiative
    THEN IF a.type = "player" THEN -1
         ELSE IF b.type = "player" THEN 1
         ELSE IF a.type = "companion" THEN -1
         ELSE IF b.type = "companion" THEN 1
         ELSE 0
    ELSE b.initiative - a.initiative

\* x inserted into the sorted q, after every element that does not come after it
RECURSIVE insertSorted(_, _)
insertSorted(q, x) ==
    IF q = <<>> THEN <<x>>
    ELSE IF compare(q[Len(q)], x) > 0
         THEN Append(insertSorted(SubSeq(q, 1, Len(q) - 1), x), q[Len(q)])
         ELSE Append(q, x)

RECURSIVE sort(_)
sort(q) == IF q = <<>> THEN <<>> ELSE insertSorted(sort(SubSeq(q, 1, Len(q) - 1)), q[Len(q)])

\* a combatant record with the fields f added or overwritten ({...c, ...f})
Spread(c, f) == [k \in DOMAIN c \cup DOMAIN f |-> IF k \in DOMAIN f THEN f[k] ELSE c[k]]

initiativeOf(c, roll) == roll + getModifier(c.stats.dexterite)

\* rolls: the d20 results in the order they are drawn (player, companion, enemies)
rollInitiative(playerCharacter, playerCompanion, enemies, rolls) ==
    LET nc == IF Truthy(playerCompanion) THEN 1 ELSE 0
        player == <<Spread(playerCharacter,
                      [id |-> <<"player">>, type |-> "player",
                       initiative |-> initiativeOf(playerCharacter, rolls[1]),
                       isAlive |-> TRUE])>>
        companion == IF Truthy(playerCompanion)
                     THEN <<Spread(playerCompanion,
                               [id |-> <<"companion">>, type |-> "companion",
                                initiative |-> initiativeOf(playerCompanion, rolls[2]),
                                isAlive |-> TRUE])>>
                     ELSE <<>>
        foes == [k \in 1..Len(enemies) |->
                    Spread(enemies[k],
                           [initiative |-> initiativeOf(enemies[k], rolls[1 + nc + k])])]
    IN  sort(player \o companion \o foes)

(***************************************************************************)
(* executeSpell: one roll r = [d20, dice] per target; an automatic hit     *)
(* draws no d20.                                                           *)
(***************************************************************************)
\* rollDamage(spell.damage.dice) + (spell.damage.bonus || 0), 0 without spell.damage
spellDamage(spell, dice) ==
    IF Has(spell, "damage")
    THEN rollDamage(spell.damage.dice, dice)
         + (IF Has(spell.damage, "bonus") THEN spell.damage.bonus ELSE 0)
    ELSE 0

\* if (spell.damage) damage = this.rollDamage(...): the call it makes
spellDraws(spell) == IF Has(spell, "damage") THEN <<"rollDamage">> ELSE <<>>

\* target.id || target.name
targetIdOf(target) == IF Has(target, "id") THEN target.id ELSE target.name

spellTarget(caster, spell, target, r, results) ==
    IF Has(spell, "requiresAttackRoll") /\ spell.requiresAttackRoll
    THEN LET spellAttackBonus == getSpellAttackBonus(caster)
             damage == critDamage(r.d20, spellDamage(spell, r.dice))
         IN  IF isHit(r.d20, spellAttackBonus, target)
             THEN [results EXCEPT
                     !.messages = Append(@, Msg(IF criticalHit(r.d20) THEN "critical" ELSE "hit",
                                                target.name, damage)),
                     !.damage = Append(@, [targetId |-> targetIdOf(target), damage |-> damage]),
                     !.drawn = @ \o <<"rollD20">> \o spellDraws(spell)]
             ELSE [results EXCEPT !.messages = Append(@, Msg("miss", target.name, 0)),
                                  !.drawn = Append(@, "rollD20")]
    ELSE LET damage == spellDamage(spell, r.dice)
         IN  [results EXCEPT
                 !.messages = Append(@, Msg("spell-hit", target.name, damage)),
                 !.damage = Append(@, [targetId |-> targetIdOf(target), damage |-> damage]),
                 !.drawn = @ \o spellDraws(spell)]

RECURSIVE spellTargets(_, _, _, _, _)
spellTargets(caster, spell, targets, rolls, results) ==
    IF targets = <<>> THEN results
    ELSE spellTargets(caster, spell, Tail(targets), Tail(rolls),
                      spellTarget(caster, spell, Head(targets), Head(rolls), results))

executeSpell(caster, spell, targets, rolls, results) ==
    spellTargets(caster, spell, targets, rolls,
                 [results EXCEPT !.messages = Append(@, Msg("spell", caster.name, 0))])

\* an executePlayerAction that does not look at the number of targets
executePlayerAction_AnyTargets(playerCharacter, action, targets, rolls) ==
    IF ~Truthy(action)
    THEN [emptyResults EXCEPT !.messages = Append(@, Msg("error", <<>>, 0))]
    ELSE CASE FieldOr(action, "type") = "attack" ->
                 executeAttack(playerCharacter, action, targets, rolls, emptyResults)
           [] FieldOr(action, "type") = "spell" ->
                 executeSpell(playerCharacter, action, targets, rolls, emptyResults)
           [] OTHER -> [emptyResults EXCEPT !.messages = Append(@, Msg("error", <<>>, 0))]

\* executePlayerAction: rolls holds one roll per target
executePlayerAction(playerCharacter, action, targets, rolls) ==
    IF ~Truthy(action) \/ Len(targets) = 0
    THEN [emptyResults EXCEPT !.messages = Append(@, Msg("error", <<>>, 0))]
    ELSE CASE FieldOr(action, "type") = "attack" ->
                 executeAttack(playerCharacter, action, targets, rolls, emptyResults)
           [] FieldOr(action, "type") = "spell" ->
                 executeSpell(playerCharacter, action, targets, rolls, emptyResults)
           [] OTHER -> [emptyResults EXCEPT !.messages = Append(@, Msg("error", <<>>, 0))]

(***************************************************************************)
(* executeEntityAttack: the result it returns and the messages it adds.    *)
(* A value that is not a number (isNaN) is an absent field here.           *)
(***************************************************************************)
\* attack.damageDice: rollDamage + (damageBonus || 0); attack.damage: rollDamage; else 1
entityDamage(attack, dice) ==
    IF Has(attack, "damageDice")
    THEN rollDamage(attack.damageDice, dice)
         + (IF Has(attack, "damageBonus") THEN attack.damageBonus ELSE 0)
    ELSE IF Has(attack, "damage") THEN rollDamage(attack.damage, dice)
    ELSE 1

\* the descriptor executeEntityAttack rolls for an attack
entityDice(attack) ==
    IF Has(attack, "damageDice") THEN attack.damageDice
    ELSE IF Has(attack, "damage") THEN attack.damage
    ELSE <<>>

\* the call of rollDamage executeEntityAttack makes for an attack that hits
entityDraws(attack) ==
    IF Has(attack, "damageDice") \/ Has(attack, "damage") THEN <<"rollDamage">> ELSE <<>>

failure(msgs, drawn) ==
    [success |-> FALSE, damage |-> 0, critical |-> FALSE, messages |-> msgs, drawn |-> drawn]

executeEntityAttack(attacker, attack, target, d20, dice) ==
    IF ~Truthy(attacker) \/ ~Truthy(attack) \/ ~Truthy(target) THEN failure(<<>>, <<>>)
    ELSE IF Has(target, "character") /\ target.character.currentHP <= 0
    THEN failure(<<Msg("default", target.name, 0)>>, <<>>)
    ELSE IF Has(target, "character") /\ ~Has(target.character, "ac")
    THEN failure(<<>>, <<"rollD20">>)
    ELSE LET attackBonus == getAttackBonus(attacker, attack)
             targetAC == IF Has(target, "character") THEN target.character.ac
                         ELSE IF Has(target, "ac") /\ target.ac # 0 THEN target.ac
                         ELSE 10
             totalAttack == d20 + attackBonus
             hit == isHit(d20, attackBonus, [ac |-> targetAC])
             damage == critDamage(d20, entityDamage(attack, dice))
         IN  IF hit
             THEN [success |-> TRUE, damage |-> damage, critical |-> criticalHit(d20),
                   messages |-> <<Msg(IF criticalHit(d20) THEN "critical"
                                      ELSE IF Has(attacker, "type") /\ attacker.type = "enemy"
                                           THEN "enemy-hit" ELSE "companion-hit",
                                      target.name, damage)>>,
                   drawn |-> <<"rollD20">> \o entityDraws(attack)]
             ELSE failure(<<Msg("miss", target.name, 0)>>, <<"rollD20">>)

(***************************************************************************)
(* executeCompanionAction and its branches.  CompanionAI and CombatEngine  *)
(* are not part of these sources: what they return or throw is an input,   *)
(* ai = [throws, bestAction, canCast], and r = [d20, die, engine] holds    *)
(* the d20, the die of rollD6/rollD8/rollD10 and the damage of             *)
(* CombatEngine.calculateDamage.  A branch that throws hands back the      *)
(* results as pushed so far with a field thrown.  consumed lists the calls *)
(* of consumeSpellSlot, as drawn lists those of the random source.         *)
(***************************************************************************)
companionResults ==
    [messages |-> <<>>, damage |-> <<>>, healing |-> <<>>, effects |-> <<>>,
     success |-> FALSE, drawn |-> <<>>, consumed |-> <<>>]

Thrown(results) == Spread(results, [thrown |-> TRUE])

\* a spell slot is taken from the companion
consumeSpellSlot_Spends(companion, spellName) ==
    IF Has(companion, "spellcasting")
    THEN [companion EXCEPT !.spellcasting.slotsRemaining = @ - 1]
    ELSE companion

\* consumeSpellSlot: the companion after the call; the code only logs
consumeSpellSlot(companion, spellName) == companion

executeCompanionAttack(companion, action, r, results) ==
    IF ~Has(action, "attack") /\ ~Has(companion, "attacks") THEN Thrown(results)
    ELSE LET attack == IF Has(action, "attack") THEN action.attack
                       ELSE IF Len(companion.attacks) > 0 THEN companion.attacks[1]
                       ELSE Null
         IN  IF ~Truthy(attack) \/ ~Has(action, "target")
             THEN [results EXCEPT !.messages = Append(@, Msg("error", companion.name, 0))]
             ELSE LET target == action.target
                      attackBonus == getAttackBonus(companion, attack)
                      damage == critDamage(r.d20, r.engine)
                  IN  IF isHit(r.d20, attackBonus, target)
                      THEN [results EXCEPT
                              !.messages = Append(@, Msg(IF criticalHit(r.d20) THEN "critical"
                                                         ELSE "success", target.name, damage)),
                              !.damage = Append(@, [targetId |-> target.name,
                                                    damage |-> damage,
                                                    source |-> companion.name,
                                                    attackType |-> FieldOr(attack, "type")]),
                              !.success = TRUE,
                              !.drawn = @ \o <<"rollD20", "calculateDamage">>]
                      ELSE [results EXCEPT
                              !.messages = Append(@, Msg("miss", target.name, 0)),
                              !.drawn = Append(@, "rollD20")]

executeCompanionSpell(companion, action, canCast, r, results) ==
    LET \* the switch of executeCompanionSpell
        companionSpell ==
            CASE action.spell = "Soins" ->
                    IF Has(action, "target") /\ Has(action.target, "id")
                    THEN [results EXCEPT
                            !.healing = Append(@, [targetId |-> action.target.id,
                                                   amount |-> r.die + 4,
                                                   source |-> companion.name]),
                            !.messages = Append(@, Msg("healing", action.target.name, r.die + 4)),
                            !.drawn = Append(@, "rollD8")]
                    ELSE results
              [] action.spell = "Trait de feu" ->
                    IF ~Has(action, "target") THEN results
                    ELSE IF ~Has(companion, "stats") THEN Thrown([results EXCEPT
                                                                    !.drawn = Append(@, "rollD10")])
                    ELSE LET damage == IF Has(companion.stats, "charisme")
                                       THEN r.die + getModifier(companion.stats.charisme)
                                       ELSE NaN
                         IN  [results EXCEPT
                                 !.damage = Append(@, [targetId |-> action.target.name,
                                                       damage |-> damage,
                                                       source |-> companion.name,
                                                       damageType |-> "feu"]),
                                 !.messages = Append(@, Msg("spell", action.target.name, damage)),
                                 !.drawn = Append(@, "rollD10")]
              [] action.spell = "Détection de la magie" ->
                    [results EXCEPT
                        !.messages = Append(@, Msg("spell", companion.name, 0)),
                        !.effects = Append(@, [type |-> "detection", source |-> companion.name,
                                               duration |-> 10])]
              [] OTHER -> [results EXCEPT !.messages = Append(@, Msg("spell", companion.name, 0))]
    IN  IF ~canCast
        THEN [results EXCEPT !.messages = Append(@, Msg("error", companion.name, 0))]
        ELSE LET cast == companionSpell
             IN  IF Has(cast, "thrown") THEN cast
                 ELSE [cast EXCEPT !.consumed = Append(@, action.spell), !.success = TRUE]

executeCompanionHeal(companion, action, r, results) ==
    IF ~Has(action, "target")
    THEN [results EXCEPT !.messages = Append(@, Msg("info", companion.name, 0))]
    ELSE [results EXCEPT
            !.healing = Append(@, [targetId |-> FieldOr(action.target, "id"),
                                   amount |-> r.die + 2,
                                   source |-> companion.name]),
            !.messages = Append(@, Msg("healing", action.target.name, r.die + 2)),
            !.success = TRUE,
            !.drawn = Append(@, "rollD6")]

executeCompanionSupport(companion, action, results) ==
    IF action.type = "protect"
    THEN IF ~Has(action, "target") THEN Thrown(results)
         ELSE [results EXCEPT
                 !.messages = Append(@, Msg("support", action.target.name, 0)),
                 !.effects = Append(@, [type |-> "protection",
                                        targetId |-> FieldOr(action.target, "id"),
                                        source |-> companion.name, duration |-> 1]),
                 !.success = TRUE]
    ELSE LET said == [results EXCEPT
                         !.messages = Append(@, Msg("support", companion.name, 0))]
         IN  IF ~Has(action, "targets") THEN Thrown(said)
             ELSE [said EXCEPT
                     !.effects = Append(@, [type |-> "taunt", source |-> companion.name,
                                            targets |-> [k \in DOMAIN action.targets |->
                                                            action.targets[k].name],
                                            duration |-> 1]),
                     !.success = TRUE]

\* catch (error): the message it adds to the results as they are
caught(companion, results) ==
    [f \in DOMAIN results \ {"thrown"} |->
        IF f = "messages" THEN Append(results.messages, Msg("error", companion.name, 0))
        ELSE results[f]]

executeCompanionAction(companionId, companion, gameState, ai, r) ==
    LET \* the switch on bestAction.type
        companionBranch(bestAction, results) ==
            CASE bestAction.type = "attack" -> executeCompanionAttack(companion, bestAction, r, results)
              [] bestAction.type = "spell" ->
                    executeCompanionSpell(companion, bestAction, ai.canCast, r, results)
              [] bestAction.type = "heal_support" -> executeCompanionHeal(companion, bestAction, r, results)
              [] bestAction.type \in {"protect", "taunt"} ->
                    executeCompanionSupport(companion, bestAction, results)
              [] OTHER -> [results EXCEPT !.messages = Append(@, Msg("error", companion.name, 0))]
    IN  IF ai.throws THEN caught(companion, companionResults)
        ELSE IF ~Truthy(ai.bestAction)
        THEN [companionResults EXCEPT !.messages = Append(@, Msg("info", companion.name, 0))]
        ELSE IF ~Has(gameState, "combatPositions") THEN caught(companion, companionResults)
        ELSE LET done == companionBranch(ai.bestAction, companionResults)
             IN  IF Has(done, "thrown") THEN caught(companion, done) ELSE done

(***************************************************************************)
(* Encounter data: the template registry and the characters are data of    *)
(* the game, a small set of them stands for it here.                       *)
(***************************************************************************)
enemyTemplates ==
    [gobelin |-> [name |-> "Gobelin", maxHP |-> MaxHP, ac |-> 15,
                  stats |-> [force |-> 8, dexterite |-> 14],
                  attacks |-> <<[name |-> "Cimeterre",
                                 damage |-> <<"1", "d", "2", "+", "1">>,
                                 attackBonus |-> 4]>>],
     ombre   |-> [name |-> "Ombre", maxHP |-> MaxHP, ac |-> 12,
                  stats |-> [force |-> 6, dexterite |-> 12],
                  attacks |-> <<>>]]

EnemyTypes == DOMAIN enemyTemplates

PlayerCharacter ==
    [name |-> <<"Elarion">>, level |-> 1, currentHP |-> MaxHP, maxHP |-> MaxHP, ac |-> 15,
     stats |-> [force |-> 14, dexterite |-> 14]]

\* a companion record as the character store holds it
CompanionRecord ==
    [name |-> <<"Tyrion">>, level |-> 1, currentHP |-> MaxHP, maxHP |-> MaxHP, ac |-> 14,
     stats |-> [force |-> 16, dexterite |-> 12]]

\* an enemy whose name carries its number whatever the size of its group
enemyInstance_AlwaysNumbered(encounter, encounterIndex, index) ==
    LET template == enemyTemplates[encounter.type]
    IN  Spread(template,
               [id |-> <<encounter.type, encounterIndex, index>>,
                name |-> <<template.name, index + 1>>,
                type |-> "enemy",
                currentHP |-> IF Has(template, "currentHP") THEN template.currentHP
                              ELSE IF Has(template, "maxHP") THEN template.maxHP ELSE 10,
                maxHP |-> IF Has(template, "maxHP") THEN template.maxHP ELSE 10,
                ac |-> IF Has(template, "ac") THEN template.ac ELSE 10,
                isAlive |-> TRUE])

\* one enemy of a group: {...template, id, name, type, currentHP, ...}; the id
\* `${type}_${encounterIndex}_${index}` is kept as its three parts, the name
\* `${template.name} ${index + 1}` as its two
enemyInstance(encounter, encounterIndex, index) ==
    LET template == enemyTemplates[encounter.type]
    IN  Spread(template,
               [id |-> <<encounter.type, encounterIndex, index>>,
                name |-> IF encounter.count > 1 THEN <<template.name, index + 1>>
                         ELSE <<template.name>>,
                type |-> "enemy",
                currentHP |-> IF Has(template, "currentHP") THEN template.currentHP
                              ELSE IF Has(template, "maxHP") THEN template.maxHP ELSE 10,
                maxHP |-> IF Has(template, "maxHP") THEN template.maxHP ELSE 10,
                ac |-> IF Has(template, "ac") THEN template.ac ELSE 10,
                isAlive |-> TRUE])

\* encounterData.enemies.flatMap(...), groups numbered from 0
RECURSIVE flatMapGroups(_, _)
flatMapGroups(groups, encounterIndex) ==
    IF groups = <<>> THEN <<>>
    ELSE LET encounter == Head(groups)
             made == IF encounter.type \in EnemyTypes
                     THEN [k \in 1..encounter.count |->
                              enemyInstance(encounter, encounterIndex, k - 1)]
                     ELSE <<>>
         IN  made \o flatMapGroups(Tail(groups), encounterIndex + 1)

\* if (!encounterData?.enemies?.length) throw ...
noEnemiesDefined(encounterData) ==
    \/ ~Truthy(encounterData)
    \/ ~Has(encounterData, "enemies")
    \/ Len(encounterData.enemies) = 0

createEnemiesFromEncounter(encounterData) ==
    IF noEnemiesDefined(encounterData)
    THEN Error("Aucun ennemi défini dans la rencontre")
    ELSE flatMapGroups(encounterData.enemies, 0)

\* getDefaultEnemyPosition with all the enemies on one row
getDefaultEnemyPosition_OneRow(index, totalEnemies) ==
    IF totalEnemies = 1 THEN [x |-> 6, y |-> 3] ELSE [x |-> 4 + index, y |-> 1]

\* getDefaultEnemyPosition(index, totalEnemies) on the grid of 8 columns and 6 rows
getDefaultEnemyPosition(index, totalEnemies) ==
    LET cols == 8
        rows == 6
        startX == (cols * 6) \div 10
        availableWidth == cols - startX
        enemiesPerRow == Min(availableWidth, totalEnemies)
        row == index \div enemiesPerRow
        col == index % enemiesPerRow
    IN  IF totalEnemies = 1
        THEN [x |-> startX + availableWidth \div 2, y |-> rows \div 2]
        ELSE [x |-> startX + col, y |-> Max(1, Min(rows - 2, row + 1))]

\* initializePositions: the object positions, its keys kept as sequences like the ids of the
\* enemies; customPositions is null or an object (an array) read at the key String(index);
\* enemies.forEach writes positions[enemy.id] in order, a later write replacing an earlier
initializePositions(playerCharacter, playerCompanion, enemies, customPositions) ==
    LET positions ==
            (<<"player">> :> [x |-> 1, y |-> 2])
                @@ (<<"companion">> :> IF Truthy(playerCompanion) THEN [x |-> 0, y |-> 2]
                                       ELSE Null)
                @@ (<<"playerHasMoved">> :> FALSE)
                @@ (<<"companionHasMoved">> :> FALSE)
        placed(index) ==
            IF Truthy(customPositions) /\ Has(customPositions, ToString(index))
                  /\ Truthy(customPositions[ToString(index)])
            THEN [x |-> customPositions[ToString(index)].x,
                  y |-> customPositions[ToString(index)].y]
            ELSE getDefaultEnemyPosition(index, Len(enemies))
        ids == {enemies[k].id : k \in 1..Len(enemies)}
        last(id) == CHOOSE k \in 1..Len(enemies) :
                        enemies[k].id = id /\ \A j \in (k + 1)..Len(enemies) : enemies[j].id # id
    IN  [key \in DOMAIN positions \cup ids |->
            IF key \in ids THEN placed(last(key) - 1) ELSE positions[key]]

RECURSIVE totalCount(_)
totalCount(groups) == IF groups = <<>> THEN 0 ELSE Head(groups).count + totalCount(Tail(groups))

\* the encounters of at most MaxEnemies enemies
Encounters ==
    LET Groups == [type : EnemyTypes, count : 1..MaxEnemies]
    IN  {[enemies |-> g] : g \in {q \in UNION {[1..n -> Groups] : n \in 1..MaxEnemies} :
                                      totalCount(q) <= MaxEnemies}}

\* the d20 results drawn for the initiative of an encounter, in the order they are drawn:
\* all equal, or alternating
InitiativeRolls ==
    {[k \in 1..(2 + MaxEnemies) |-> 10],
     [k \in 1..(2 + MaxEnemies) |-> IF k % 2 = 1 THEN 11 ELSE 10],
     [k \in 1..(2 + MaxEnemies) |-> IF k % 2 = 1 THEN 10 ELSE 12]}

(***************************************************************************)
(* State.                                                                  *)
(*   phase, currentTurn   props of CombatTurnManager, owned by its parent  *)
(*   turnOrder, enemies   the combat store's turn order and enemy list     *)
(*   timers               the pending setTimeout continuations             *)
(*   mounted              the component is mounted                         *)
(*   stage                "turn"/"end": the effects of the last render are *)
(*                        still to run; "idle": they have run              *)
(*   rPhase, rTurn        the props of the last render (what an effect's   *)
(*                        closure sees)                                    *)
(*   closure              which turnOrder handleEnemyTurn's closure holds: *)
(*                        "mount", the first render's (the parent's        *)
(*                        callbacks are stable, useCallback never renews   *)
(*                        it); "render", that of the render that scheduled *)
(*                        the timer (the parent passes new callbacks on    *)
(*                        every render)                                    *)
(*   mountOrder           the turnOrder of the first render                *)
(*   emitted, phaseCalls, nextTurnCalls, lastOp                            *)
(*                        what the last step passed to addCombatMessage,   *)
(*                        onPhaseChange and onNextTurn, and which handler  *)
(*                        it was                                           *)
(*   outcome              the terminal phase the end-of-combat effect has  *)
(*                        set, "none" before                               *)
(*   hpCheck              "pending": currentHP has changed and the         *)
(*                        end-of-combat effect has not run since;          *)
(*                        "checked": it has just run on that change        *)
(*   svcCall, svcRes      a call of a CombatService method and its result  *)
(*   store                the character store: playerCharacter and         *)
(*                        playerCompanion                                  *)
(***************************************************************************)
VARIABLES phase, currentTurn, turnOrder, enemies, timers, mounted, stage, rPhase, rTurn,
          closure, mountOrder, emitted, phaseCalls, nextTurnCalls, lastOp, outcome,
          hpCheck, svcCall, svcRes, store

mgrVars == <<phase, currentTurn, turnOrder, enemies, timers, mounted, stage, rPhase, rTurn,
             closure, mountOrder, emitted, phaseCalls, nextTurnCalls, lastOp, outcome,
             hpCheck>>
svcVars == <<svcCall, svcRes>>
vars == <<mgrVars, svcVars, store>>

\* the character store before a character is set
emptyStore == [playerCharacter |-> Null, playerCompanion |-> Null, selectedCharacter |-> Null]

Phases == {"setup", "combat", "turn", "player-turn", "companion-turn", "enemy-turn",
           "victory", "defeat"}
Terminal == {"victory", "defeat"}
\* if (!playerCharacter || !playerCharacter.stats) throw ...
playerMissing(playerCharacter) ==
    ~Truthy(playerCharacter) \/ ~Has(playerCharacter, "stats")

\* an initialisation that accepts an encounter whose list of groups is empty
initializeCombat_EmptyAllowed(playerCharacter, playerCompanion, encounterData, rolls) ==
    IF ~Truthy(encounterData) \/ ~Has(encounterData, "enemies")
    THEN Error("Aucun ennemi défini dans la rencontre")
    ELSE IF playerMissing(playerCharacter)
    THEN Error("Personnage joueur requis pour initialiser le combat")
    ELSE [enemies |-> flatMapGroups(encounterData.enemies, 0),
          turnOrder |-> rollInitiative(playerCharacter, playerCompanion,
                                       flatMapGroups(encounterData.enemies, 0), rolls),
          currentTurn |-> 0]

\* initializeCombat: the enemies, the turn order, the positions, currentTurn 0; an error thrown by
\* createEnemiesFromEncounter or by rollInitiative leaves it without a result
initializeCombat(playerCharacter, playerCompanion, encounterData, rolls) ==
    IF noEnemiesDefined(encounterData)
    THEN Error("Aucun ennemi défini dans la rencontre")
    ELSE IF playerMissing(playerCharacter)
    THEN Error("Personnage joueur requis pour initialiser le combat")
    ELSE LET made == createEnemiesFromEncounter(encounterData)
         IN  [enemies |-> made,
              turnOrder |-> rollInitiative(playerCharacter, playerCompanion, made, rolls),
              positions |-> initializePositions(playerCharacter, playerCompanion, made,
                                                IF Has(encounterData, "enemyPositions")
                                                THEN encounterData.enemyPositions ELSE Null),
              currentTurn |-> 0]

\* the parent's onNextTurn: currentTurn = (currentTurn + 1) mod length
onNextTurn(t) == (t + 1) % Len(turnOrder)

\* the phase after the calls of onPhaseChange in calls, in order
onPhaseChange(p, calls) == IF calls = <<>> THEN p ELSE calls[Len(calls)]

isAlly(c) == c.type = "player" \/ c.type = "companion"

\* turnOrder[currentTurn], null when out of range
hasCurrentCombatant(t) == ~(Len(turnOrder) = 0 \/ t >= Len(turnOrder))
getCurrentCombatant(t) == turnOrder[t + 1]
isCurrentCombatantAlive(t) == hasCurrentCombatant(t) /\ getCurrentCombatant(t).currentHP > 0

\* the turnOrder that the closure of handleEnemyTurn reads for timer tm
closureOrder(tm) ==
    IF closure = "render" THEN tm.seen ELSE mountOrder

seenNow == IF closure = "render" THEN turnOrder ELSE <<>>

RemoveAt(q, k) == SubSeq(q, 1, k - 1) \o SubSeq(q, k + 1, Len(q))

\* a state change outside the effects: the component renders again when it is mounted
\* and a prop or a store value it reads has changed
Rendered(p, t, storeChanged) ==
    /\ phase' = p
    /\ currentTurn' = t
    /\ rPhase' = p
    /\ rTurn' = t
    /\ stage' = IF mounted /\ (p # phase \/ t # currentTurn \/ storeChanged)
                THEN "turn" ELSE stage

Init ==
    LET ClosureModes == {"mount", "render"}
        \* a companion record that wraps its sheet in a character field
        CompanionWrapped == Spread(CompanionRecord, [character |-> [name |-> <<"Tyrion">>]])
        Companions == {Null, CompanionRecord, CompanionWrapped}
    IN  /\ \/ \E pc \in Companions, enc \in Encounters :
                \E rolls \in InitiativeRolls :
                   LET c == initializeCombat(PlayerCharacter, pc, enc, rolls)
                   IN  /\ turnOrder = c.turnOrder
                       /\ enemies = c.enemies
                       /\ currentTurn = c.currentTurn
                       /\ mountOrder = c.turnOrder
           \* mounted before the encounter is initialized: the lists are still empty
           \/ /\ turnOrder = <<>> /\ enemies = <<>> /\ currentTurn = 0
              /\ mountOrder = <<>>
        /\ closure \in ClosureModes
        /\ phase = "setup"
        /\ timers = <<>>
        /\ mounted = TRUE
        /\ stage = "turn"
        /\ rPhase = "setup"
        /\ rTurn = 0
        /\ emitted = <<>>
        /\ phaseCalls = <<>>
        /\ nextTurnCalls = 0
        /\ lastOp = "mount"
        /\ outcome = "none"
        /\ hpCheck = "no"
        /\ svcCall = [op |-> "none"]
        /\ svcRes = [status |-> "none"]
        /\ store = emptyStore

(***************************************************************************)
(* The turn effect (useEffect, lines 61-103).                              *)
(***************************************************************************)
TurnEffect ==
    /\ mounted /\ stage = "turn"
    /\ LET cur == getCurrentCombatant(rTurn)
           acts == (rPhase = "combat" \/ rPhase = "turn") /\ isCurrentCombatantAlive(rTurn)
           msg == <<Msg("turn-start", cur.name, 0)>>
       IN  /\ IF ~acts
              THEN /\ phaseCalls' = <<>> /\ nextTurnCalls' = 0 /\ emitted' = <<>>
                   /\ timers' = timers
              ELSE CASE cur.type = "player" ->
                          /\ phaseCalls' = <<"player-turn">> /\ nextTurnCalls' = 0
                          /\ emitted' = msg /\ timers' = timers
                     [] cur.type = "companion" ->
                          IF ~Has(cur, "character")
                          THEN /\ phaseCalls' = <<>> /\ nextTurnCalls' = 1
                               /\ emitted' = <<>> /\ timers' = timers
                          ELSE /\ phaseCalls' = <<"companion-turn">> /\ nextTurnCalls' = 0
                               /\ emitted' = msg
                               /\ timers' = Append(timers, [kind |-> "companionTurn",
                                                             who |-> rTurn, seen |-> <<>>])
                     [] cur.type = "enemy" ->
                          /\ phaseCalls' = <<"enemy-turn">> /\ nextTurnCalls' = 0
                          /\ emitted' = msg
                          /\ timers' = Append(timers, [kind |-> "enemyTurn",
                                                        who |-> rTurn, seen |-> seenNow])
                     [] OTHER ->
                          /\ phaseCalls' = <<>> /\ nextTurnCalls' = 0 /\ emitted' = <<>>
                          /\ timers' = timers
    /\ phase' = onPhaseChange(phase, phaseCalls')
    /\ currentTurn' = IF nextTurnCalls' = 1 THEN onNextTurn(currentTurn) ELSE currentTurn
    /\ stage' = "end"
    /\ lastOp' = "turnEffect"
    /\ UNCHANGED <<turnOrder, enemies, mounted, rPhase, rTurn, closure, mountOrder, outcome,
                   hpCheck>>
    /\ UNCHANGED <<svcVars, store>>

(***************************************************************************)
(* The end-of-combat effect (useEffect, lines 193-216).                    *)
(***************************************************************************)
aliveEnemies == {k \in 1..Len(enemies) : enemies[k].currentHP > 0}
aliveAllies == {k \in 1..Len(turnOrder) : isAlly(turnOrder[k]) /\ turnOrder[k].currentHP > 0}

\* an end-of-combat check that runs between turns only
endOfCombat_BetweenTurns(p) ==
    IF p # "combat" THEN "none"
    ELSE IF {k \in 1..Len(enemies) : enemies[k].currentHP > 0} = {} THEN "victory"
    ELSE IF {k \in 1..Len(turnOrder) :
                turnOrder[k].type \in {"player", "companion"} /\ turnOrder[k].currentHP > 0} = {}
         THEN "defeat"
    ELSE "none"

\* the effect for the enemies es of the combat store and the turn order order
endOfCombatOf(p, es, order) ==
    IF p = "victory" \/ p = "defeat" THEN "none"
    ELSE IF {k \in 1..Len(es) : es[k].currentHP > 0} = {} THEN "victory"
    ELSE IF {k \in 1..Len(order) : isAlly(order[k]) /\ order[k].currentHP > 0} = {}
         THEN "defeat"
    ELSE "none"

endOfCombat(p) == endOfCombatOf(p, enemies, turnOrder)

EndEffect ==
    /\ mounted /\ stage = "end"
    /\ LET end == endOfCombat(rPhase)
       IN  /\ phaseCalls' = IF end = "none" THEN <<>> ELSE <<end>>
           /\ emitted' = IF end = "none" THEN <<>> ELSE <<Msg(end, <<>>, 0)>>
           /\ outcome' = IF end = "none" THEN outcome ELSE end
    /\ phase' = onPhaseChange(phase, phaseCalls')
    /\ nextTurnCalls' = 0
    /\ stage' = IF phase' # rPhase \/ currentTurn # rTurn THEN "turn" ELSE "idle"
    /\ rPhase' = phase'
    /\ rTurn' = currentTurn
    /\ lastOp' = "endEffect"
    /\ hpCheck' = IF hpCheck = "pending" THEN "checked" ELSE "no"
    /\ UNCHANGED <<currentTurn, turnOrder, enemies, timers, mounted, closure, mountOrder>>
    /\ UNCHANGED <<svcVars, store>>

(***************************************************************************)
(* The delayed continuations.                                              *)
(***************************************************************************)
\* setTimeout(() => { onNextTurn(); onPhaseChange('combat') }, ...)
advanceTimer == [kind |-> "advance", who |-> 0, seen |-> <<>>]

\* a timer's callback has run: what it passed to the callbacks, the timers left
Fired(op, msgs, calls, nexts, left) ==
    /\ lastOp' = op
    /\ emitted' = msgs
    /\ phaseCalls' = calls
    /\ nextTurnCalls' = nexts
    /\ timers' = left
    /\ Rendered(onPhaseChange(phase, calls),
                IF nexts = 1 THEN onNextTurn(currentTurn) ELSE currentTurn,
                FALSE)
    /\ hpCheck' = "no"
    /\ UNCHANGED <<turnOrder, enemies, mounted, closure, mountOrder, outcome>>
    /\ UNCHANGED <<svcVars, store>>

\* handleCompanionTurn (lines 106-115)
handleCompanionTurn(k) ==
    /\ stage = "idle"
    /\ k \in 1..Len(timers) /\ timers[k].kind = "companionTurn"
    /\ Fired("handleCompanionTurn",
             <<Msg("default", turnOrder[timers[k].who + 1].name, 0)>>,
             <<>>, 0, Append(RemoveAt(timers, k), advanceTimer))

\* executeEnemyAttack (lines 151-190): the message it adds
\* combatService is the CombatService of services/CombatService.js; a NaN total is
\* not >= target.ac, so that only a critical hit is a hit
executeEnemyAttack(enemy, attack, target, d20, dice) ==
    LET attackBonus == CombatService_getAttackBonus(enemy, attack)
        damage == critDamage(d20, rollDamage(attack.damage, dice))
    IN  IF (IF bonusIsNaN(enemy, attack) THEN criticalHit(d20)
            ELSE isHit(d20, attackBonus, target))
        THEN Msg(IF criticalHit(d20) THEN "critical" ELSE "enemy-hit", target.name, damage)
        ELSE Msg("miss", target.name, 0)

\* possibleTargets of handleEnemyTurn, read from the closure's turnOrder
possibleTargets(order) == SelectSeq(order, LAMBDA c : isAlly(c) /\ c.currentHP > 0)

\* possibleTargets.find(t => t.type === 'player') || possibleTargets[0]
chooseTarget(targets) ==
    IF \E j \in 1..Len(targets) : targets[j].type = "player"
    THEN targets[CHOOSE j \in 1..Len(targets) :
                    /\ targets[j].type = "player"
                    /\ \A i \in 1..(j - 1) : targets[i].type # "player"]
    ELSE targets[1]

\* handleEnemyTurn (lines 118-148)
handleEnemyTurn(k) ==
    /\ stage = "idle"
    /\ k \in 1..Len(timers) /\ timers[k].kind = "enemyTurn"
    /\ LET enemy == turnOrder[timers[k].who + 1]
           left == RemoveAt(timers, k)
           targets == possibleTargets(closureOrder(timers[k]))
       IN  IF ~Has(enemy, "attacks") \/ Len(enemy.attacks) = 0
           THEN Fired("handleEnemyTurn", <<Msg("default", enemy.name, 0)>>, <<>>, 0,
                      Append(left, advanceTimer))
           ELSE \E a \in 1..Len(enemy.attacks) :
                   IF Len(targets) = 0
                   THEN Fired("handleEnemyTurn", <<>>, <<"victory">>, 0, left)
                   ELSE \E d20 \in rollD20, dice \in DiceFor(enemy.attacks[a].damage) :
                           Fired("handleEnemyTurn",
                                 <<executeEnemyAttack(enemy, enemy.attacks[a],
                                                      chooseTarget(targets), d20, dice)>>,
                                 <<>>, 0, Append(left, advanceTimer))

\* a continuation that returns to combat without advancing the turn
advanceTurn_NoNext(k) ==
    /\ stage = "idle"
    /\ k \in 1..Len(timers) /\ timers[k].kind = "advance"
    /\ Fired("advanceTurn", <<>>, <<"combat">>, 0, RemoveAt(timers, k))

\* the continuation that ends a turn: onNextTurn(); onPhaseChange('combat')
advanceTurn(k) ==
    /\ stage = "idle"
    /\ k \in 1..Len(timers) /\ timers[k].kind = "advance"
    /\ Fired("advanceTurn", <<>>, <<"combat">>, 1, RemoveAt(timers, k))

(***************************************************************************)
(* The environment of the component: its parent and the stores.            *)
(***************************************************************************)
\* the parent starts the encounter: setup -> combat
StartCombat ==
    /\ mounted /\ stage = "idle" /\ phase = "setup"
    /\ lastOp' = "startCombat"
    /\ emitted' = <<>> /\ phaseCalls' = <<>> /\ nextTurnCalls' = 0
    /\ Rendered("combat", currentTurn, FALSE)
    /\ hpCheck' = "no"
    /\ UNCHANGED <<turnOrder, enemies, timers, mounted, closure, mountOrder, outcome>>
    /\ UNCHANGED <<svcVars, store>>

\* currentHP after damage d, clamped at 0
damaged(c, d) == [c EXCEPT !.currentHP = Max(0, c.currentHP - d)]

\* the store applies damage d to the combatant with this id, in both of its lists
applyDamage(q, id, d) == [k \in 1..Len(q) |-> IF q[k].id = id THEN damaged(q[k], d) ELSE q[k]]

\* the player's action: damage d (0: a miss) to a living enemy, then the turn advances
PlayerAction(e, d) ==
    /\ mounted /\ stage = "idle" /\ phase = "player-turn"
    /\ e \in 1..Len(enemies) /\ enemies[e].currentHP > 0
    /\ enemies' = applyDamage(enemies, enemies[e].id, d)
    /\ turnOrder' = applyDamage(turnOrder, enemies[e].id, d)
    /\ lastOp' = "playerAction"
    /\ emitted' = <<>> /\ phaseCalls' = <<>> /\ nextTurnCalls' = 0
    /\ Rendered("combat", onNextTurn(currentTurn), d > 0)
    /\ hpCheck' = IF d > 0 THEN "pending" ELSE "no"
    /\ UNCHANGED <<timers, mounted, closure, mountOrder, outcome>>
    /\ UNCHANGED <<svcVars, store>>

\* the store applies damage d to a living ally while the encounter runs
takeDamage(i, d) ==
    /\ mounted /\ stage = "idle" /\ phase \notin Terminal \cup {"setup"}
    /\ i \in 1..Len(turnOrder) /\ isAlly(turnOrder[i]) /\ turnOrder[i].currentHP > 0
    /\ turnOrder' = applyDamage(turnOrder, turnOrder[i].id, d)
    /\ lastOp' = "takeDamage"
    /\ emitted' = <<>> /\ phaseCalls' = <<>> /\ nextTurnCalls' = 0
    /\ Rendered(phase, currentTurn, TRUE)
    /\ hpCheck' = "pending"
    /\ UNCHANGED <<enemies, timers, mounted, closure, mountOrder, outcome>>
    /\ UNCHANGED <<svcVars, store>>

\* the encounter is torn down: the component unmounts (its effects return no cleanup)
Unmount ==
    /\ mounted /\ stage = "idle" /\ phase # "setup"
    /\ mounted' = FALSE
    /\ lastOp' = "unmount"
    /\ hpCheck' = "no"
    /\ emitted' = <<>> /\ phaseCalls' = <<>> /\ nextTurnCalls' = 0
    /\ UNCHANGED <<phase, currentTurn, turnOrder, enemies, timers, stage, rPhase, rTurn,
                   closure, mountOrder, outcome>>
    /\ UNCHANGED <<svcVars, store>>

Next ==
    \/ TurnEffect
    \/ EndEffect
    \/ \E k \in 1..Len(timers) : handleCompanionTurn(k)
    \/ \E k \in 1..Len(timers) : handleEnemyTurn(k)
    \/ \E k \in 1..Len(timers) : advanceTurn(k)
    \/ StartCombat
    \/ \E e \in 1..MaxEnemies, d \in 0..MaxHP : PlayerAction(e, d)
    \/ \E i \in 1..(2 + MaxEnemies), d \in 1..MaxHP : takeDamage(i, d)
    \/ Unmount

Spec == Init /\ [][Next]_vars

(***************************************************************************)
(* Properties of the turn manager.                                         *)
(***************************************************************************)
TurnPhases == {"player-turn", "companion-turn", "enemy-turn"}
TurnHandlers == {"handleCompanionTurn", "handleEnemyTurn"}
someoneAlive == \E k \in 1..Len(turnOrder) : turnOrder[k].currentHP > 0

\* the steps the component can take by itself: its effects and its pending timers
ManagerNext ==
    \/ TurnEffect
    \/ EndEffect
    \/ \E k \in 1..Len(timers) : (handleCompanionTurn(k) \/ handleEnemyTurn(k) \/ advanceTurn(k))

\* C1: once the phase is victory or defeat it never changes again
C1_TerminalPhaseIsFinal == [][(phase \in Terminal) => (phase' = phase)]_vars

\* C2: after the component is unmounted no pending timer runs
C2_NoContinuationAfterTeardown == [][(~mounted) => (timers' = timers)]_vars

\* C3: in phase combat on a defeated combatant, with a living combatant in the turn
\* order, the manager has a step left to take: it does not stay there forever
C3_DefeatedCombatantIsSkipped ==
    (mounted /\ phase = "combat" /\ ~isCurrentCombatantAlive(currentTurn) /\ someoneAlive)
        => ENABLED ManagerNext

\* C4: after the end-of-combat effect has set victory or defeat, no companion or enemy
\* turn handler runs and onNextTurn is not called
C4_NothingRunsAfterOutcome ==
    [][(outcome # "none") =>
          (/\ currentTurn' = currentTurn
           /\ ~(timers' # timers /\ lastOp' \in TurnHandlers))]_vars

\* C6: victory is set only with every enemy at currentHP <= 0, defeat only with no
\* player or companion at currentHP > 0
C6_TerminalPhaseMatchesHP ==
    \A j \in 1..Len(phaseCalls) :
        /\ phaseCalls[j] = "victory" => aliveEnemies = {}
        /\ phaseCalls[j] = "defeat" => aliveAllies = {}

\* C7: the end-of-combat effect runs on every change of currentHP before any timer
\* fires, and sets victory when no enemy is left alive, defeat when no ally is
C7_OutcomeFollowsHPChange ==
    /\ hpCheck = "pending" => stage # "idle"
    /\ hpCheck = "checked" =>
          /\ aliveEnemies = {} => phase = "victory"
          /\ aliveAllies = {} => phase = "defeat"

\* C7 witness: a change of currentHP has ended the combat in the middle of a turn delay
C7_Witness ==
    /\ hpCheck = "checked" /\ phase = "defeat" /\ timers # <<>>

(***************************************************************************)
(* The calls of CombatService: a call is drawn with its arguments and the  *)
(* results of the random source, then the method is applied to it.         *)
(***************************************************************************)
\* the d20 results drawn for an attack: below, at and above an armor class, and a 20
AttackRolls == {10, 11, 18, 20}

Epee == [name |-> <<"Epee">>, type |-> "attack", damage |-> <<"1", "d", "8", "+", "2">>]

Mage ==
    [name |-> <<"Mage">>, level |-> 5, currentHP |-> MaxHP, maxHP |-> MaxHP, ac |-> 12,
     stats |-> [force |-> 8, dexterite |-> 14, intelligence |-> 16],
     spellcasting |-> [ability |-> "intelligence"]]

RayonDeGivre ==
    [name |-> <<"Rayon de givre">>, type |-> "spell", requiresAttackRoll |-> TRUE,
     damage |-> [dice |-> <<"1", "d", "8">>]]

Griffes == [name |-> <<"Griffes">>, damageDice |-> <<"1", "d", "6">>, damageBonus |-> 1]
Coup == [name |-> <<"Coup">>]

TargetSeqs ==
    LET \* the targets of a call: two enemies, one of armor class 15 and one of 25
        SvcTargets ==
            {Spread(enemyInstance([type |-> "gobelin", count |-> 2], 0, 0), [ac |-> 15]),
             Spread(enemyInstance([type |-> "gobelin", count |-> 2], 0, 1), [ac |-> 25])}
    IN  UNION {[1..n -> SvcTargets] : n \in 0..MaxTargets}

\* one roll per target: the d20 and the damage dice of the descriptor
RollsFor(desc) == [d20 : AttackRolls, dice : DiceFor(desc)]

AttackCalls ==
    UNION {{[op |-> "executeAttack", attacker |-> PlayerCharacter, weapon |-> Epee,
             targets |-> ts, rolls |-> rs] :
               rs \in [1..Len(ts) -> RollsFor(Epee.damage)]} : ts \in TargetSeqs}

\* the spells are cast at one target, a spell of the mage at MaxTargets targets too
SpellCalls ==
    LET ProjectileMagique ==
            [name |-> <<"Projectile Magique">>, type |-> "spell", requiresAttackRoll |-> FALSE,
             damage |-> [dice |-> <<"1", "d", "4">>, bonus |-> 1]]
        \* an automatic hit whose damage has no bonus
        TraitDeFeu ==
            [name |-> <<"Trait de feu">>, type |-> "spell", requiresAttackRoll |-> FALSE,
             damage |-> [dice |-> <<"1", "d", "4">>]]
        Spells == {RayonDeGivre, ProjectileMagique, TraitDeFeu}
    IN  UNION {{[op |-> "executeSpell", attacker |-> x.c, weapon |-> sp,
                 targets |-> x.ts, rolls |-> rs] :
                   rs \in [1..Len(x.ts) -> RollsFor(sp.damage.dice)]} :
               sp \in Spells,
               x \in {y \in [c : {Mage, PlayerCharacter}, ts : TargetSeqs] :
                         Len(y.ts) = 1 \/ (Len(y.ts) = MaxTargets /\ y.c = Mage)}}

\* a target that wraps its sheet in a character field
Wrapped(c) == [name |-> c.name, type |-> "companion", character |-> c]

EntityCalls ==
    LET EntityTargets ==
            {PlayerCharacter, [PlayerCharacter EXCEPT !.currentHP = 0], Wrapped(CompanionRecord),
             Wrapped([CompanionRecord EXCEPT !.currentHP = 0]),
             Wrapped([name |-> <<"Tyrion">>, currentHP |-> MaxHP])}
        EntityAttackers ==
            {enemyInstance([type |-> "gobelin", count |-> 1], 0, 0), CompanionRecord}
    IN  UNION {{[op |-> o, attacker |-> a, weapon |-> w, targets |-> <<t>>, rolls |-> <<r>>] :
                   r \in RollsFor(entityDice(w)), a \in EntityAttackers, t \in EntityTargets} :
               w \in {enemyTemplates.gobelin.attacks[1], Griffes, Coup},
               o \in {"executeEntityAttack"}}

HPs == 0..MaxHP

BonusCalls ==
    LET \* the two classes CombatService of the repository, by their files
        ServiceFiles == {"stores/characterStore.js", "services/CombatService.js"}
        BonusWeapons ==
            {enemyTemplates.gobelin.attacks[1], Epee, Coup,
             [name |-> <<"Morsure">>, attackBonus |-> 0],
             [name |-> <<"Arc">>, category |-> "ranged"],
             [name |-> <<"Fronde">>, type |-> "ranged"],
             [name |-> <<"Dague">>, range |-> 1],
             [name |-> <<"Lance">>, range |-> 2],
             [name |-> <<"Javelot">>, range |-> 6],
             [name |-> <<"Baton">>, stat |-> "sagesse", range |-> 6],
             [name |-> <<"Rapiere">>, stat |-> "dexterite"]}
        \* the characters and weapons getAttackBonus is given: with or without level, stats,
        \* governing stat, attackBonus, stat, range
        BonusAttackers ==
            {PlayerCharacter, CompanionRecord,
             enemyInstance([type |-> "gobelin", count |-> 1], 0, 0),
             [name |-> <<"Rhingann">>, level |-> 5, stats |-> [force |-> 9, dexterite |-> 16,
                                                                sagesse |-> 13]],
             [name |-> <<"Rhingann">>, stats |-> [force |-> 9, dexterite |-> 16]],
             [name |-> <<"Rhingann">>, level |-> 5, stats |-> [dexterite |-> 16]],
             [name |-> <<"Rhingann">>, level |-> 5, stats |-> [force |-> 9]],
             [name |-> <<"Rhingann">>, level |-> 5],
             [name |-> <<"Rhingann">>]}
    IN  {[op |-> "getAttackBonus", file |-> f, attacker |-> a, weapon |-> w] :
            f \in ServiceFiles, a \in BonusAttackers, w \in BonusWeapons}

PlayerActionCalls ==
    LET \* the actions executePlayerAction is given: none, an attack, a spell, another type, no type
        PlayerActions ==
            {Null, Epee, RayonDeGivre, [name |-> <<"Fuite">>, type |-> "flee"],
             [name |-> <<"Fuite">>]}
    IN  UNION {{[op |-> "executePlayerAction", attacker |-> PlayerCharacter, weapon |-> a,
                 targets |-> ts, rolls |-> rs] :
                   rs \in [1..Len(ts) -> RollsFor(<<"1", "d", "8">>)]} :
               a \in PlayerActions, ts \in {q \in TargetSeqs : Len(q) <= 1}}

\* a companion that attacks and casts spells, and the charisma scores it may have
Finn ==
    [name |-> <<"Finn">>, level |-> 1, currentHP |-> MaxHP, maxHP |-> MaxHP, ac |-> 14,
     stats |-> [force |-> 16, dexterite |-> 12, charisme |-> 10],
     attacks |-> <<[name |-> <<"Marteau">>, type |-> "melee"]>>,
     spellcasting |-> [ability |-> "charisme", slotsRemaining |-> 1]]

CompanionCalls ==
    LET Scores == {1, 10, 30}
        Positions == [combatPositions |-> [companion |-> [x |-> 0, y |-> 3]]]
        CompanionCall(a, gs, ai, r) ==
            [op |-> "executeCompanionAction", attacker |-> a, gameState |-> gs, ai |-> ai,
             rolls |-> r]
        \* the die a companion action rolls: d8 for Soins, d10 for Trait de feu, d6 for a heal
        DieOf(action) ==
            IF action.type = "heal_support" THEN 1..6
            ELSE IF action.type = "spell" /\ action.spell = "Soins" THEN 1..8
            ELSE IF action.type = "spell" /\ action.spell = "Trait de feu" THEN 1..10
            ELSE {1}
        \* the targets of a companion: an enemy, and a combatant without id
        CompanionTargets ==
            {Spread(enemyInstance([type |-> "gobelin", count |-> 2], 0, 1), [ac |-> 15]),
             [name |-> <<"Elarion">>, currentHP |-> MaxHP, ac |-> 15]}
        SupportActions ==
            {[type |-> "protect"], [type |-> "taunt"], [type |-> "danse"]}
                \cup {[type |-> "protect", target |-> t] : t \in CompanionTargets}
                \cup {[type |-> "taunt", targets |-> <<t>>] : t \in CompanionTargets}
        HealActions ==
            {[type |-> "heal_support"]}
                \cup {[type |-> "heal_support", target |-> t] : t \in CompanionTargets}
        SpellNames == {"Soins", "Trait de feu", "Détection de la magie", "Bouclier"}
        SpellActions ==
            {[type |-> "spell", spell |-> n] : n \in SpellNames}
                \cup {[type |-> "spell", spell |-> n, target |-> t] :
                          n \in SpellNames, t \in CompanionTargets}
        \* what CompanionAI.getBestAction returns, by type
        AttackActions ==
            {[type |-> "attack"]}
                \cup {[type |-> "attack", target |-> t] : t \in CompanionTargets}
                \cup {[type |-> "attack", attack |-> Griffes, target |-> t] : t \in CompanionTargets}
    IN  {CompanionCall(a, Positions, [throws |-> FALSE, bestAction |-> b, canCast |-> TRUE],
                       [d20 |-> d, die |-> 1, engine |-> e]) :
            a \in {Finn, [Finn EXCEPT !.attacks = <<>>],
                   [f \in DOMAIN Finn \ {"attacks"} |-> Finn[f]]},
            b \in AttackActions, d \in AttackRolls, e \in {0, 3}}
        \cup UNION {{CompanionCall([Finn EXCEPT !.stats.charisme = c], Positions,
                                   [throws |-> FALSE, bestAction |-> b, canCast |-> cc],
                                   [d20 |-> 10, die |-> n, engine |-> 0]) :
                        n \in DieOf(b), c \in Scores, cc \in BOOLEAN} :
                    b \in SpellActions \cup HealActions}
        \cup {CompanionCall(Finn, gs, [throws |-> th, bestAction |-> b, canCast |-> TRUE],
                            [d20 |-> 10, die |-> 1, engine |-> 0]) :
                  gs \in {Positions, [round |-> 1]}, th \in BOOLEAN,
                  b \in SupportActions \cup {Null, [type |-> "attack",
                                                    target |-> [name |-> <<"Elarion">>,
                                                                currentHP |-> MaxHP,
                                                                ac |-> 15]]}}

\* the groups createEnemiesFromEncounter is given: a type of the registry or not,
\* a count that may be 0
UnknownType == "dragon"
\* skipToNextAliveCombatant of the closure over currentTurn t and turnOrder order: the do-while
\* loop from nextIndex with attempts tries made; (nextIndex + 1) % 0 is NaN and 1 >= 0 ends it
RECURSIVE skipToNextAliveCombatant(_, _, _)
skipToNextAliveCombatant(nextIndex, attempts, order) ==
    LET maxAttempts == Len(order)
        next == (nextIndex + 1) % maxAttempts
    IN  IF maxAttempts = 0 \/ attempts + 1 >= maxAttempts THEN Null
        ELSE IF Has(order[next + 1], "currentHP") /\ order[next + 1].currentHP > 0
        THEN Number(next)
        ELSE skipToNextAliveCombatant(next, attempts + 1, order)

SvcCalls ==
    LET InitCombatCalls ==
            LET InitEncounters ==
                    {Null, [name |-> <<"Embuscade">>], [enemies |-> <<>>],
                     [enemies |-> <<[type |-> UnknownType, count |-> 1]>>],
                     [enemies |-> <<[type |-> "gobelin", count |-> 0]>>]}
                        \cup {enc \in Encounters : Len(enc.enemies) = 1}
                \* the player characters and encounters initializeCombat is given: present or not
                InitPlayers == {PlayerCharacter, Null, [name |-> <<"Elarion">>, level |-> 1]}
            IN  {[op |-> "initializeCombat", player |-> pc, companion |-> c, encounterData |-> enc,
                  rolls |-> rs] :
                    pc \in InitPlayers, c \in {Null, CompanionRecord}, enc \in InitEncounters,
                    rs \in InitiativeRolls}
        EnemyAttackCalls ==
            LET \* the enemies of executeEnemyAttack: as created, and with a level
                EnemyAttackers ==
                    {enemyInstance([type |-> "gobelin", count |-> 1], 0, 0),
                     Spread(enemyInstance([type |-> "gobelin", count |-> 1], 0, 0), [level |-> 1])}
            IN  {[op |-> "executeEnemyAttack", attacker |-> a,
                  weapon |-> enemyTemplates.gobelin.attacks[1], targets |-> <<t>>, rolls |-> <<r>>] :
                     r \in RollsFor(enemyTemplates.gobelin.attacks[1].damage),
                     a \in EnemyAttackers,
                     t \in {PlayerCharacter, [PlayerCharacter EXCEPT !.ac = 30],
                            [PlayerCharacter EXCEPT !.ac = 10]}}
        InitiativeCalls ==
            LET \* the d20 results drawn for an initiative roll
                InitiativeD20 == {10, 11, 12}
            IN  UNION {{[op |-> "rollInitiative", player |-> PlayerCharacter, companion |-> c,
                         enemies |-> createEnemiesFromEncounter(enc), rolls |-> rs] :
                           c \in {Null, CompanionRecord},
                           rs \in [1..(2 + Len(createEnemiesFromEncounter(enc))) -> InitiativeD20]} :
                       enc \in Encounters}
        CreateCalls ==
            LET CreateGroups == [type : EnemyTypes \cup {UnknownType}, count : 0..MaxEnemies]
            IN  {[op |-> "createEnemiesFromEncounter", encounterData |-> enc] :
                    enc \in {Null, [enemies |-> <<>>]}
                             \cup {[enemies |-> g] :
                                      g \in UNION {[1..n -> CreateGroups] : n \in 1..MaxEnemies}}}
        \* the calls of initializePositions: up to MaxPlaced enemies as createEnemiesFromEncounter
        \* numbers them, with or without companion, customPositions absent, empty, or with entries
        \* for some of the indices
        PositionCalls ==
            LET CustomPositions ==
                    {Null, <<>>,
                     ("0" :> [x |-> 2, y |-> 5]),
                     ("1" :> [x |-> 3, y |-> 0]),
                     ("0" :> Null) @@ ("1" :> [x |-> 5, y |-> 5]),
                     ("0" :> [x |-> 7, y |-> 0]) @@ ("1" :> [x |-> 6, y |-> 1]) @@ ("4" :> [x |-> 0, y |-> 0])}
            IN  {[op |-> "initializePositions", player |-> PlayerCharacter, companion |-> c,
                  enemies |-> [k \in 1..n |-> enemyInstance([type |-> "gobelin", count |-> n], 0, k - 1)],
                  customPositions |-> cp] :
                    c \in {Null, CompanionRecord}, n \in 0..MaxPlaced, cp \in CustomPositions}
        \* the calls of rollDamage: a descriptor and the die results the random source gives
        RollDamageCalls ==
            LET Descriptors ==
                    {<<"2", "d", "6", "+", "3">>, <<"1", "d", "8", "+", "2">>, <<"2", "d", "6">>,
                     <<"1", "d", "4">>, <<"0", "d", "6", "+", "1">>, <<"1", "0", "d", "1">>,
                     <<"2", "d", "0">>,
                     <<"2", "d", "6", "-", "1">>, <<"x", "1", "d", "4">>,
                     <<"1", "d", "4", "+", "2", "+", "1">>, <<"1", "d", "4", "+">>,
                     <<"1", "d", "4", " ", "f", "e", "u">>,
                     <<"d", "6">>, <<"6">>, <<"f", "e", "u">>, <<>>}
            IN  {[op |-> "rollDamage", descriptor |-> d.s, dice |-> d.dice] :
                    d \in {x \in [s : Descriptors, dice : UNION {DiceFor(y) : y \in Descriptors}] :
                               x.dice \in DiceFor(x.s)}}
        \* the calls of skipToNextAliveCombatant: a turn order of up to MaxOrder combatants, each
        \* standing or fallen, and the index of the current one
        SkipCalls ==
            {[op |-> "skipToNextAliveCombatant", currentTurn |-> t, turnOrder |-> order] :
                t \in 0..(MaxOrder - 1),
                order \in UNION {[1..n -> {[type |-> "enemy", currentHP |-> h] : h \in {0 - 1, 0, MaxHP}}] :
                                    n \in 0..MaxOrder}}
        CheckEndCalls ==
            UNION {{[op |-> "checkCombatEnd", player |-> [currentHP |-> hp],
                     companion |-> c, enemies |-> es] :
                       hp \in HPs, c \in {Null} \cup {[currentHP |-> h] : h \in HPs}} :
                   es \in UNION {[1..n -> {[currentHP |-> h] : h \in HPs}] : n \in 0..MaxEnemies}}
    IN  AttackCalls \cup SpellCalls \cup EntityCalls \cup EnemyAttackCalls
            \cup CheckEndCalls \cup InitiativeCalls \cup InitCombatCalls
            \cup CreateCalls \cup BonusCalls \cup PlayerActionCalls \cup CompanionCalls
            \cup RollDamageCalls \cup PositionCalls \cup SkipCalls

SvcInit ==
    /\ svcCall \in SvcCalls
    /\ svcRes = [status |-> "pending"]
    /\ store = emptyStore
    /\ phase = "setup" /\ currentTurn = 0 /\ turnOrder = <<>> /\ enemies = <<>>
    /\ timers = <<>> /\ mounted = FALSE /\ stage = "idle" /\ rPhase = "setup" /\ rTurn = 0
    /\ closure = "mount" /\ mountOrder = <<>> /\ emitted = <<>> /\ phaseCalls = <<>>
    /\ nextTurnCalls = 0 /\ lastOp = "none" /\ outcome = "none" /\ hpCheck = "no"

\* the method of a pending call returns value
Returns(op, value) ==
    /\ svcCall.op = op /\ svcRes.status = "pending"
    /\ svcRes' = [status |-> "done", value |-> value]
    /\ UNCHANGED <<svcCall, mgrVars, store>>

CallExecuteAttack ==
    Returns("executeAttack",
            executeAttack(svcCall.attacker, svcCall.weapon, svcCall.targets, svcCall.rolls,
                          emptyResults))

CallExecuteSpell ==
    Returns("executeSpell",
            executeSpell(svcCall.attacker, svcCall.weapon, svcCall.targets, svcCall.rolls,
                         emptyResults))

CallExecuteEntityAttack ==
    Returns("executeEntityAttack",
            executeEntityAttack(svcCall.attacker, svcCall.weapon, svcCall.targets[1],
                                svcCall.rolls[1].d20, svcCall.rolls[1].dice))

CallExecuteEnemyAttack ==
    Returns("executeEnemyAttack",
            executeEnemyAttack(svcCall.attacker, svcCall.weapon, svcCall.targets[1],
                               svcCall.rolls[1].d20, svcCall.rolls[1].dice))

CallCheckCombatEnd ==
    Returns("checkCombatEnd",
            checkCombatEnd(svcCall.player, svcCall.companion, svcCall.enemies))

CallRollInitiative ==
    Returns("rollInitiative",
            rollInitiative(svcCall.player, svcCall.companion, svcCall.enemies, svcCall.rolls))

CallInitializeCombat ==
    Returns("initializeCombat",
            initializeCombat(svcCall.player, svcCall.companion, svcCall.encounterData,
                             svcCall.rolls))

CallCreateEnemiesFromEncounter ==
    Returns("createEnemiesFromEncounter", createEnemiesFromEncounter(svcCall.encounterData))

\* getAttackBonus of the CombatService of stores/characterStore.js
CallGetAttackBonus ==
    /\ svcCall.op = "getAttackBonus" /\ svcCall.file = "stores/characterStore.js"
    /\ Returns("getAttackBonus", Number(getAttackBonus(svcCall.attacker, svcCall.weapon)))

\* getAttackBonus of the CombatService of services/CombatService.js
CallCombatService_getAttackBonus ==
    /\ svcCall.op = "getAttackBonus" /\ svcCall.file = "services/CombatService.js"
    /\ Returns("getAttackBonus",
               LET bonus == CombatService_getAttackBonus(svcCall.attacker, svcCall.weapon)
               IN  IF ~Has(svcCall.attacker, "stats")
                      \/ bonusIsNaN(svcCall.attacker, svcCall.weapon)
                   THEN bonus ELSE Number(bonus))

CallExecutePlayerAction ==
    Returns("executePlayerAction",
            executePlayerAction(svcCall.attacker, svcCall.weapon, svcCall.targets,
                                svcCall.rolls))

\* executeCompanionAction returns; the companion it was given is as the call left it
CallExecuteCompanionAction ==
    /\ svcCall.op = "executeCompanionAction" /\ svcRes.status = "pending"
    /\ LET res == executeCompanionAction("companion", svcCall.attacker, svcCall.gameState,
                                         svcCall.ai, svcCall.rolls)
       IN  /\ svcRes' = [status |-> "done", value |-> res]
           /\ svcCall' = [svcCall EXCEPT
                             !.attacker = IF res.consumed = <<>> THEN @
                                          ELSE consumeSpellSlot(@, res.consumed[1])]
    /\ UNCHANGED <<mgrVars, store>>

\* rollDamage(damageString), the random source giving the die results svcCall.dice
CallRollDamage ==
    Returns("rollDamage", Number(rollDamage(svcCall.descriptor, svcCall.dice)))

CallInitializePositions ==
    Returns("initializePositions",
            initializePositions(svcCall.player, svcCall.companion, svcCall.enemies,
                                svcCall.customPositions))

CallSkipToNextAliveCombatant ==
    Returns("skipToNextAliveCombatant",
            skipToNextAliveCombatant(svcCall.currentTurn, 0, svcCall.turnOrder))

SvcNext ==
    \/ CallSkipToNextAliveCombatant
    \/ CallInitializePositions
    \/ CallRollDamage
    \/ CallExecutePlayerAction
    \/ CallExecuteCompanionAction
    \/ CallGetAttackBonus
    \/ CallCombatService_getAttackBonus
    \/ CallInitializeCombat
    \/ CallCreateEnemiesFromEncounter
    \/ CallExecuteAttack
    \/ CallExecuteSpell
    \/ CallExecuteEntityAttack
    \/ CallExecuteEnemyAttack
    \/ CallCheckCombatEnd
    \/ CallRollInitiative

SvcSpec == SvcInit /\ [][SvcNext]_vars

Done(op) == svcCall.op = op /\ svcRes.status = "done"

(***************************************************************************)
(* Properties of CombatService.                                            *)
(***************************************************************************)
enemiesDown(call) == \A k \in 1..Len(call.enemies) : call.enemies[k].currentHP <= 0
alliesDown(call) ==
    /\ call.player.currentHP <= 0
    /\ (call.companion = Null \/ call.companion.currentHP <= 0)

\* C5: checkCombatEnd returns defeat exactly when the player, and the companion if
\* there is one, are at currentHP <= 0; victory exactly when every enemy is at
\* currentHP <= 0 and that is not the case; null exactly when neither holds
C5_DefeatBeforeVictory ==
    Done("checkCombatEnd") =>
        /\ svcRes.value = "defeat" <=> alliesDown(svcCall)
        /\ svcRes.value = "victory" <=> (enemiesDown(svcCall) /\ ~alliesDown(svcCall))
        /\ svcRes.value = "null" <=> (~enemiesDown(svcCall) /\ ~alliesDown(svcCall))

\* C5 witness: the check has run with every enemy and every ally at currentHP <= 0
C5_Witness ==
    /\ Done("checkCombatEnd") /\ svcCall.enemies # <<>> /\ svcCall.companion # Null
    /\ enemiesDown(svcCall) /\ alliesDown(svcCall)

\* C5 as stated: victory if and only if every enemy is at currentHP <= 0, defeat if
\* and only if no ally is left, null exactly when neither holds
C5_AsStated ==
    Done("checkCombatEnd") =>
        /\ svcRes.value = "victory" <=> enemiesDown(svcCall)
        /\ svcRes.value = "defeat" <=> alliesDown(svcCall)
        /\ svcRes.value = "null" <=> (~enemiesDown(svcCall) /\ ~alliesDown(svcCall))

\* the attack of a call reaches the hit decision: an attack roll is drawn and
\* executeEntityAttack has found a living target with an armor class
Resolved(call) ==
    /\ call.op \in {"executeAttack", "executeSpell", "executeEntityAttack",
                    "executeEnemyAttack"}
    /\ call.op = "executeSpell" => call.weapon.requiresAttackRoll
    /\ call.op = "executeEntityAttack" =>
          \A k \in 1..Len(call.targets) :
              Has(call.targets[k], "character") =>
                  /\ call.targets[k].character.currentHP > 0
                  /\ Has(call.targets[k].character, "ac")

\* the damage total of target k before a critical hit doubles it: dice plus bonus
undoubled(call, k) ==
    CASE call.op = "executeSpell" ->
            SumSeq(call.rolls[k].dice)
                + (IF Has(call.weapon.damage, "bonus") THEN call.weapon.damage.bonus ELSE 0)
      [] call.op = "executeEntityAttack" -> entityDamage(call.weapon, call.rolls[k].dice)
      [] OTHER -> rollDamage(call.weapon.damage, call.rolls[k].dice)

\* the messages of the targets, in target order, and the damage entries of a result
targetMessages(call, res) ==
    CASE call.op = "executeSpell" -> Tail(res.messages)
      [] call.op = "executeEntityAttack" -> res.messages
      [] call.op = "executeEnemyAttack" -> <<res>>
      [] OTHER -> res.messages

damageEntries(call, res) ==
    CASE call.op = "executeEntityAttack" -> IF res.success THEN <<res>> ELSE <<>>
      [] call.op = "executeEnemyAttack" -> IF res.type = "miss" THEN <<>> ELSE <<res>>
      [] OTHER -> res.damage

\* the number of targets among the first k that the result reports as hit
hitsAmong(call, res, k) ==
    Cardinality({j \in 1..k : targetMessages(call, res)[j].type # "miss"})

hitRule(call, k) ==
    \/ call.rolls[k].d20 = 20
    \/ call.rolls[k].d20 + getAttackBonus(call.attacker, call.weapon) >= call.targets[k].ac

\* the damage entries of the first k targets: one for each target hit
RECURSIVE entriesUpTo(_, _)
entriesUpTo(call, k) ==
    IF k = 0 THEN <<>>
    ELSE IF hitRule(call, k)
         THEN Append(entriesUpTo(call, k - 1),
                     [targetId |-> call.targets[k].id,
                      damage |-> (IF call.rolls[k].d20 = 20 THEN 2 ELSE 1)
                                    * undoubled(call, k)])
         ELSE entriesUpTo(call, k - 1)

\* the scenario: one target of armor class 15, a d20 of 18, a 5 on the damage die
Scenario(call) ==
    /\ Len(call.targets) = 1 /\ call.targets[1].ac = 15
    /\ call.rolls[1] = [d20 |-> 18, dice |-> <<5>>]

\* C9: executeAttack returns, in target order, one damage entry for each target that
\* is hit by the rule and none for a target missed, which gets a miss message only;
\* in the scenario the result is the single entry of damage 7
C9_OneEntryPerHit ==
    Done("executeAttack") =>
        /\ svcRes.value.damage = entriesUpTo(svcCall, Len(svcCall.targets))
        /\ Len(svcRes.value.messages) = Len(svcCall.targets)
        /\ \A k \in 1..Len(svcCall.targets) :
              svcRes.value.messages[k].type = "miss" <=> ~hitRule(svcCall, k)
        /\ Scenario(svcCall) =>
              svcRes.value.damage = <<[targetId |-> svcCall.targets[1].id, damage |-> 7]>>

\* C9 witness: of two targets the first is missed and the second is hit with a total
\* equal to its armor class
C9_Witness ==
    /\ Done("executeAttack") /\ Len(svcCall.targets) = 2
    /\ ~hitRule(svcCall, 1)
    /\ svcCall.rolls[2].d20 + getAttackBonus(svcCall.attacker, svcCall.weapon)
          = svcCall.targets[2].ac
    /\ Len(svcRes.value.damage) = 1

\* the combatants of a call in the order their initiative is rolled
entrants(call) ==
    <<[id |-> <<"player">>, type |-> "player", dexterite |-> call.player.stats.dexterite]>>
    \o (IF call.companion = Null THEN <<>>
        ELSE <<[id |-> <<"companion">>, type |-> "companion",
                dexterite |-> call.companion.stats.dexterite]>>)
    \o [k \in 1..Len(call.enemies) |->
           [id |-> call.enemies[k].id, type |-> "enemy",
            dexterite |-> call.enemies[k].stats.dexterite]]

\* the position among the entrants of the combatant of an id
entrantOf(call, id) == CHOOSE j \in 1..Len(entrants(call)) : entrants(call)[j].id = id

typeRank(type) == CASE type = "player" -> 1 [] type = "companion" -> 2 [] OTHER -> 3

\* C10: the turn order holds every entrant exactly once with its initiative, d20 plus
\* dexterity modifier, in non-increasing order; among equal initiatives the player is
\* before the companion, the companion before the enemies, the enemies in input order
C10_TurnOrderSorted ==
    Done("rollInitiative") =>
        LET order == svcRes.value
            ins == entrants(svcCall)
        IN  /\ Len(order) = Len(ins)
            /\ \A j \in 1..Len(ins) :
                  Cardinality({k \in 1..Len(order) : order[k].id = ins[j].id}) = 1
            /\ \A k \in 1..Len(order) :
                  LET j == entrantOf(svcCall, order[k].id)
                  IN  /\ order[k].type = ins[j].type
                      /\ order[k].initiative
                            = svcCall.rolls[j] + ((ins[j].dexterite - 10) \div 2)
            /\ \A k \in 1..(Len(order) - 1) : order[k].initiative >= order[k + 1].initiative
            /\ \A k, l \in 1..Len(order) :
                  (k < l /\ order[k].initiative = order[l].initiative) =>
                      /\ typeRank(order[k].type) <= typeRank(order[l].type)
                      /\ order[k].type = "enemy" =>
                            entrantOf(svcCall, order[k].id) < entrantOf(svcCall, order[l].id)

\* C10 witness: the player, the companion and two enemies have rolled initiatives
\* that differ and initiatives that are equal
C10_Witness ==
    /\ Done("rollInitiative") /\ svcCall.companion # Null /\ Len(svcCall.enemies) = MaxEnemies
    /\ \E k, l \in 1..Len(svcRes.value) :
          /\ svcRes.value[k].initiative = svcRes.value[l].initiative
          /\ svcRes.value[k].type = "player" /\ svcRes.value[l].type = "enemy"
    /\ \E k, l \in 1..Len(svcRes.value) :
          /\ k # l /\ svcRes.value[k].initiative = svcRes.value[l].initiative
          /\ svcRes.value[k].type = "enemy" /\ svcRes.value[l].type = "enemy"
    /\ \E k, l \in 1..Len(svcRes.value) :
          svcRes.value[k].initiative > svcRes.value[l].initiative

(***************************************************************************)
(* Properties of the turns.                                                *)
(***************************************************************************)
\* the turn effect runs in phase combat on a living combatant
TurnStarts ==
    /\ mounted /\ stage = "turn" /\ stage' = "end"
    /\ rPhase = "combat" /\ isCurrentCombatantAlive(rTurn)

turnPhaseOf(c) ==
    CASE c.type = "player" -> "player-turn"
      [] c.type = "companion" -> "companion-turn"
      [] OTHER -> "enemy-turn"

\* C11: in phase combat on a living combatant the manager sets the turn phase of the
\* combatant's type and adds exactly one turn-start message that names it
C11_TurnPhaseOfLivingCombatant ==
    [][TurnStarts =>
          (/\ phaseCalls' = <<turnPhaseOf(getCurrentCombatant(rTurn))>>
           /\ emitted' = <<Msg("turn-start", getCurrentCombatant(rTurn).name, 0)>>)]_vars

\* the timer k fires in this step and runs handler op
Fires(k, op) ==
    /\ lastOp' = op
    /\ k \in 1..Len(timers)
    /\ timers[k].kind = (CASE op = "handleEnemyTurn" -> "enemyTurn"
                           [] op = "handleCompanionTurn" -> "companionTurn"
                           [] OTHER -> "advance")
    /\ Len(timers') >= Len(timers) - 1
    /\ SubSeq(timers', 1, Len(timers) - 1) = RemoveAt(timers, k)

noAttacks(enemy) == ~Has(enemy, "attacks") \/ Len(enemy.attacks) = 0

AttackMessages == {"enemy-hit", "critical", "miss"}

\* the enemy turn of timer k resolves an attack in this step
Attacks(k) ==
    /\ Fires(k, "handleEnemyTurn")
    /\ Len(emitted') = 1 /\ emitted'[1].type \in AttackMessages

\* the combatants of the turn order that the message m names
named(m) == {j \in 1..Len(turnOrder) : turnOrder[j].name = m.name}

playerAlive == \E j \in 1..Len(turnOrder) :
                  turnOrder[j].type = "player" /\ turnOrder[j].currentHP > 0

\* C13: the target of an enemy's attack is an ally with currentHP > 0 when the attack
\* is resolved, the player whenever the player is alive
C13_TargetIsLivingAlly ==
    [][\A k \in 1..Len(timers) :
          Attacks(k) =>
             (/\ named(emitted'[1]) # {}
              /\ \A j \in named(emitted'[1]) :
                    /\ isAlly(turnOrder[j])
                    /\ turnOrder[j].currentHP > 0
                    /\ playerAlive => turnOrder[j].type = "player")]_vars

\* C14: an enemy's attack that hits takes the damage of its message from the target's
\* currentHP, down to 0 at most
C14_HitDamageIsApplied ==
    [][\A k \in 1..Len(timers) :
          (Attacks(k) /\ emitted'[1].type \in {"enemy-hit", "critical"}) =>
             \A j \in named(emitted'[1]) :
                turnOrder'[j].currentHP
                   = Max(0, turnOrder[j].currentHP - emitted'[1].damage)]_vars

\* the steps of the manager: its effects and its timers
ManagerOps == {"turnEffect", "endEffect", "handleCompanionTurn", "handleEnemyTurn",
               "advanceTurn"}

\* the handler of a companion or enemy turn runs and does not end the combat
TurnHandled(k) ==
    /\ (Fires(k, "handleCompanionTurn") \/ Fires(k, "handleEnemyTurn"))
    /\ \A j \in 1..Len(phaseCalls') : phaseCalls'[j] \notin Terminal

\* while the phase is player-turn no step of the manager calls onNextTurn, schedules
\* or runs a timer, or sets a phase other than an outcome
PlayerTurnWaits ==
    (phase = "player-turn" /\ lastOp' \in ManagerOps /\ mounted) =>
        (/\ nextTurnCalls' = 0
         /\ timers' = timers
         /\ phase' \in {"player-turn"} \cup Terminal)

\* the turn of a living companion or enemy starts: its handler is scheduled, once,
\* and onNextTurn is left to the continuation
HandlerScheduled ==
    (TurnStarts /\ getCurrentCombatant(rTurn).type \in {"companion", "enemy"}) =>
        (/\ nextTurnCalls' = 0
         /\ Len(timers') = Len(timers) + 1
         /\ SubSeq(timers', 1, Len(timers)) = timers
         /\ timers'[Len(timers')].who = rTurn
         /\ timers'[Len(timers')].kind
               = (IF getCurrentCombatant(rTurn).type = "enemy" THEN "enemyTurn"
                  ELSE "companionTurn"))

\* a handler that does not end the combat schedules one continuation, and the
\* continuation calls onNextTurn once and then sets the phase to combat
AdvancesOnce ==
    \A k \in 1..Len(timers) :
        /\ TurnHandled(k) =>
              (/\ nextTurnCalls' = 0 /\ phaseCalls' = <<>>
               /\ timers' = Append(RemoveAt(timers, k), advanceTimer))
        /\ Fires(k, "advanceTurn") =>
              (/\ nextTurnCalls' = 1 /\ phaseCalls' = <<"combat">>
               /\ currentTurn' = (currentTurn + 1) % Len(turnOrder)
               /\ phase' = "combat"
               /\ timers' = RemoveAt(timers, k))

\* C15: every companion or enemy turn that does not end the combat calls onNextTurn
\* exactly once, from the continuation its handler schedules, which then sets the phase
\* to combat; during a player turn the manager calls and schedules nothing
C15_TurnsAdvanceOnce ==
    [][PlayerTurnWaits /\ HandlerScheduled /\ AdvancesOnce]_vars

(***************************************************************************)
(* The character store: the actions that apply damage or healing.          *)
(***************************************************************************)
\* CharacterManager.takeDamage and CharacterManager.heal
healed(c, h) == [c EXCEPT !.currentHP = Min(c.maxHP, c.currentHP + h)]

\* a healing potion of the inventory: an item with a heal effect and no use function
potion(q) ==
    [id |-> "potion", quantity |-> q, consumable |-> TRUE,
     effects |-> <<[type |-> "heal", value |-> 2]>>]

\* the character sheets the store is given: rested, with any inventory
Sheets(name, con) ==
    LET Inventories == {<<>>} \cup {<<potion(q)>> : q \in 1..MaxPotions}
    IN  {[name |-> name, currentHP |-> MaxSheetHP, maxHP |-> MaxSheetHP, hitDice |-> MaxHitDice,
          hitDiceType |-> 4, stats |-> [constitution |-> con], inventory |-> inv] :
            inv \in Inventories}

\* the amounts of damage and healing, up to more than a sheet's maxHP
Amounts == 0..(MaxSheetHP + 1)

Targets == {"player", "companion"}
slot(targetCharacter) ==
    IF targetCharacter = "player" THEN "playerCharacter" ELSE "playerCompanion"

\* a hit die that heals without looking at maxHP
spentHitDie_NoCap(character, roll) ==
    [character EXCEPT !.currentHP = @ + roll, !.hitDice = @ - 1]

\* the character after spendHitDie has rolled roll
spentHitDie(character, roll) ==
    LET constitutionModifier == (character.stats.constitution - 10) \div 2
        healing == Max(1, roll + constitutionModifier)
        newHP == Min(character.maxHP, character.currentHP + healing)
    IN  [character EXCEPT !.currentHP = newHP, !.hitDice = @ - 1]

hitDieSize(character) ==
    IF Has(character, "hitDiceType") /\ character.hitDiceType # 0
    THEN character.hitDiceType ELSE 8

\* inventory.findIndex(item => id === itemId): 0 when there is none
findIndex(inventory, itemId) ==
    IF \E j \in 1..Len(inventory) : inventory[j].id = itemId
    THEN CHOOSE j \in 1..Len(inventory) :
            /\ inventory[j].id = itemId
            /\ \A i \in 1..(j - 1) : inventory[i].id # itemId
    ELSE 0

\* the effects of an item applied in order, each to the character's currentHP
RECURSIVE applyEffects(_, _, _)
applyEffects(character, updated, effects) ==
    IF effects = <<>> THEN updated
    ELSE applyEffects(character,
                      IF Head(effects).type = "heal"
                      THEN [updated EXCEPT !.currentHP =
                               Min(character.maxHP, character.currentHP + Head(effects).value)]
                      ELSE updated,
                      Tail(effects))

\* removeItemFromInventory(itemId, targetCharacter, quantityToRemove)
removeItemFromInventory(character, itemId, quantityToRemove) ==
    LET itemIndex == findIndex(character.inventory, itemId)
        item == character.inventory[itemIndex]
    IN  IF itemIndex = 0 THEN character
        ELSE IF item.quantity <= quantityToRemove
        THEN [character EXCEPT !.inventory = RemoveAt(@, itemIndex)]
        ELSE [character EXCEPT !.inventory[itemIndex].quantity = @ - quantityToRemove]

\* syncCharacter(updates): selectedCharacter follows a playerCharacter that is truthy
syncCharacter(updates) ==
    IF Has(updates, "playerCharacter") /\ Truthy(updates.playerCharacter)
    THEN Spread(updates, [selectedCharacter |-> updates.playerCharacter])
    ELSE updates

\* set(syncCharacter({ playerCharacter })) for the player, set({ playerCompanion }) for the
\* companion
StoreWrite(targetCharacter, character) ==
    /\ store' = Spread(store, IF targetCharacter = "player"
                              THEN syncCharacter([playerCharacter |-> character])
                              ELSE [playerCompanion |-> character])
    /\ UNCHANGED <<mgrVars, svcVars>>

\* setPlayerCharacter(character): a deep clone of the character, or null
setPlayerCharacter(character) ==
    /\ store' = Spread(store, syncCharacter([playerCharacter |->
                                                IF Truthy(character) THEN character ELSE Null]))
    /\ UNCHANGED <<mgrVars, svcVars>>

\* updatePlayerCharacter(updates): { ...state.playerCharacter, ...updates }, or null
updatePlayerCharacter(updates) ==
    /\ store' = Spread(store, [playerCharacter |->
                                  IF Truthy(store.playerCharacter)
                                  THEN Spread(store.playerCharacter, updates) ELSE Null])
    /\ UNCHANGED <<mgrVars, svcVars>>

\* resetCharacters: playerCharacter and playerCompanion are set to null
resetCharacters ==
    /\ store' = Spread(store, [playerCharacter |-> Null, playerCompanion |-> Null])
    /\ UNCHANGED <<mgrVars, svcVars>>

takeDamagePlayer(damage) ==
    /\ Truthy(store.playerCharacter)
    /\ StoreWrite("player", damaged(store.playerCharacter, damage))

takeDamageCompanion(damage) ==
    /\ Truthy(store.playerCompanion)
    /\ StoreWrite("companion", damaged(store.playerCompanion, damage))

healPlayer(healing) ==
    /\ Truthy(store.playerCharacter)
    /\ StoreWrite("player", healed(store.playerCharacter, healing))

healCompanion(healing) ==
    /\ Truthy(store.playerCompanion)
    /\ StoreWrite("companion", healed(store.playerCompanion, healing))

spendHitDie(targetCharacter) ==
    LET character == store[slot(targetCharacter)]
    IN  /\ Truthy(character)
        /\ ~(character.hitDice <= 0)
        /\ ~(character.currentHP >= character.maxHP)
        /\ \E roll \in 1..hitDieSize(character) :
              StoreWrite(targetCharacter, spentHitDie(character, roll))

useItem(itemId, targetCharacter) ==
    LET character == store[slot(targetCharacter)]
        itemIndex == findIndex(character.inventory, itemId)
        item == character.inventory[itemIndex]
        updatedCharacter == applyEffects(character, character, item.effects)
    IN  /\ Truthy(character)
        /\ itemIndex # 0
        /\ Has(item, "effects")
        /\ StoreWrite(targetCharacter,
                      IF Has(item, "consumable") /\ item.consumable
                      THEN removeItemFromInventory(updatedCharacter, itemId, 1)
                      ELSE updatedCharacter)

StoreInit ==
    /\ store \in {[playerCharacter |-> pc, playerCompanion |-> c, selectedCharacter |-> pc] :
                       pc \in Sheets(<<"Elarion">>, 8),
                       c \in {Null} \cup Sheets(<<"Tyrion">>, 14)}
    /\ svcCall = [op |-> "none"]
    /\ svcRes = [status |-> "none"]
    /\ phase = "setup" /\ currentTurn = 0 /\ turnOrder = <<>> /\ enemies = <<>>
    /\ timers = <<>> /\ mounted = FALSE /\ stage = "idle" /\ rPhase = "setup" /\ rTurn = 0
    /\ closure = "mount" /\ mountOrder = <<>> /\ emitted = <<>> /\ phaseCalls = <<>>
    /\ nextTurnCalls = 0 /\ lastOp = "none" /\ outcome = "none" /\ hpCheck = "no"

StoreNext ==
    \/ \E damage \in Amounts : takeDamagePlayer(damage)
    \/ \E damage \in Amounts : takeDamageCompanion(damage)
    \/ \E healing \in Amounts : healPlayer(healing)
    \/ \E healing \in Amounts : healCompanion(healing)
    \/ \E t \in Targets : spendHitDie(t)
    \/ \E t \in Targets : useItem("potion", t)
    \/ \E character \in {Null} \cup Sheets(<<"Elarion">>, 8) : setPlayerCharacter(character)
    \/ \E updates \in {[hitDice |-> MaxHitDice], [currentHP |-> 1]} : updatePlayerCharacter(updates)
    \/ resetCharacters

StoreSpec == StoreInit /\ [][StoreNext]_vars

(***************************************************************************)
(* Equipment of the character store: equipItem and unequipItem. An         *)
(* equipment is an object of slots that hold item ids; data/weapons is the *)
(* registry of the weapons by id.                                          *)
(***************************************************************************)
weapons ==
    [epee |-> [name |-> <<"Epee">>, type |-> "weapon"],
     dague |-> [name |-> <<"Dague">>, type |-> "weapon"],
     arc |-> [name |-> <<"Arc">>, type |-> "weapon"]]

\* the character after unequipItem(itemId); the character itself when nothing is done
unequipped(character, itemId) ==
    IF ~Has(character, "equipment") THEN character
    ELSE LET equipment == character.equipment
             found == {sl \in DOMAIN equipment : equipment[sl] = itemId}
         IN  IF found = {} THEN character
             ELSE LET foundSlot == CHOOSE sl \in found : TRUE
                      newEquipment == [sl \in DOMAIN equipment \ {foundSlot} |-> equipment[sl]]
                      newInventory ==
                          IF Has(weapons, itemId)
                          THEN Append(character.inventory, Spread(weapons[itemId], [id |-> itemId]))
                          ELSE character.inventory
                  IN  Spread(character, [inventory |-> newInventory, equipment |-> newEquipment])

\* the character after equipItem(itemId); the character itself when nothing is done
equipped(character, itemId) ==
    LET inventory == character.inventory
        item == IF findIndex(inventory, itemId) # 0 THEN inventory[findIndex(inventory, itemId)]
                ELSE IF Has(weapons, itemId) THEN Spread(weapons[itemId], [id |-> itemId])
                ELSE Null
        itemType == FieldOr(item, "type")
        slotOf == IF itemType \in {"weapon", "arme"} THEN "mainHand"
                  ELSE IF itemType \in {"armor", "armure"} THEN "body"
                  ELSE "accessory"
        currentEquipment == IF Has(character, "equipment") THEN character.equipment ELSE <<>>
        newEquipment == Spread(currentEquipment, slotOf :> itemId)
        without(inv) == SelectSeq(inv, LAMBDA invItem : invItem.id # itemId)
    IN  IF ~Truthy(item) THEN character
        ELSE IF itemType \notin {"weapon", "arme", "armor", "armure", "accessory", "accessoire"}
        THEN character
        ELSE IF Has(currentEquipment, slotOf)
        THEN LET oldEquipmentId == currentEquipment[slotOf]
                 wasInInventory == findIndex(inventory, oldEquipmentId) # 0
                 newInventory ==
                     IF wasInInventory /\ Has(weapons, oldEquipmentId)
                     THEN Append(inventory, Spread(weapons[oldEquipmentId],
                                                   [id |-> oldEquipmentId]))
                     ELSE inventory
             IN  Spread(character, [inventory |-> without(newInventory),
                                    equipment |-> newEquipment])
        ELSE Spread(character, [inventory |-> without(inventory), equipment |-> newEquipment])

equipItem(itemId, targetCharacter) ==
    /\ Truthy(store[slot(targetCharacter)])
    /\ StoreWrite(targetCharacter, equipped(store[slot(targetCharacter)], itemId))

unequipItem(itemId, targetCharacter) ==
    /\ Truthy(store[slot(targetCharacter)])
    /\ StoreWrite(targetCharacter, unequipped(store[slot(targetCharacter)], itemId))

\* the ids equipItem and unequipItem are given: weapons of the registry held or not, an
\* armor and a ring that are no weapons, a potion, an id nobody knows
ItemIds == {"epee", "dague", "arc", "cuir", "anneau", "potion", "rien"}

EquipInit ==
    LET held(id) == Spread(weapons[id], [id |-> id])
        cuir == [id |-> "cuir", name |-> <<"Armure de cuir">>, type |-> "armor"]
        anneau == [id |-> "anneau", name |-> <<"Anneau">>, type |-> "accessoire"]
        dagues == Spread(held("dague"), [quantity |-> 2])
        Inventories ==
            {<<held("epee"), held("dague")>>, <<held("epee"), cuir, potion(1)>>,
             <<dagues, held("epee"), anneau>>, <<cuir, held("epee")>>, <<>>}
        Bearers(name) == {[name |-> name, inventory |-> inv] : inv \in Inventories}
                             \cup {[name |-> name, inventory |-> <<held("dague")>>,
                                    equipment |-> [mainHand |-> "epee"]]}
    IN  /\ store \in {[playerCharacter |-> pc, playerCompanion |-> c, selectedCharacter |-> pc] :
                           pc \in Bearers(<<"Elarion">>),
                           c \in {Null, [name |-> <<"Tyrion">>,
                                         inventory |-> <<held("epee")>>]}}
        /\ svcCall = [op |-> "none"]
        /\ svcRes = [status |-> "none"]
        /\ phase = "setup" /\ currentTurn = 0 /\ turnOrder = <<>> /\ enemies = <<>>
        /\ timers = <<>> /\ mounted = FALSE /\ stage = "idle" /\ rPhase = "setup" /\ rTurn = 0
        /\ closure = "mount" /\ mountOrder = <<>> /\ emitted = <<>> /\ phaseCalls = <<>>
        /\ nextTurnCalls = 0 /\ lastOp = "none" /\ outcome = "none" /\ hpCheck = "no"

EquipNext ==
    \/ \E itemId \in ItemIds, t \in Targets : equipItem(itemId, t)
    \/ \E itemId \in ItemIds, t \in Targets : unequipItem(itemId, t)

EquipSpec == EquipInit /\ [][EquipNext]_vars

C17_InitializeCombatFails ==
    Done("initializeCombat") =>
        ((\/ svcCall.encounterData = Null
          \/ ~Has(svcCall.encounterData, "enemies")
          \/ svcCall.encounterData.enemies = <<>>
          \/ svcCall.player = Null
          \/ ~Has(svcCall.player, "stats"))
            => DOMAIN svcRes.value = {"error"})

\* C17 witness: an encounter with enemies was given with a player character that has
\* no stats, and the call has raised the error
C17_Witness ==
    /\ Done("initializeCombat")
    /\ svcCall.encounterData # Null /\ Has(svcCall.encounterData, "enemies")
    /\ svcCall.encounterData.enemies # <<>>
    /\ svcCall.player # Null /\ ~Has(svcCall.player, "stats")
    /\ Has(svcRes.value, "error")

\* the groups of the call, and the result of the call when it has returned a list
groupsGiven == svcCall.encounterData.enemies
Created ==
    /\ Done("createEnemiesFromEncounter")
    /\ ~noEnemiesDefined(svcCall.encounterData)

\* the number of enemies due to the first n groups: count for a group of the
\* registry, none for another
RECURSIVE dueBefore(_)
dueBefore(n) ==
    IF n = 0 THEN 0
    ELSE dueBefore(n - 1)
            + (IF groupsGiven[n].type \in DOMAIN enemyTemplates THEN groupsGiven[n].count
               ELSE 0)

\* C18: createEnemiesFromEncounter skips the groups of an unknown type without
\* aborting and creates, in group order, count enemies for each other group, with
\* the id {type}_{groupIndex}_{indexInGroup}, groupIndex counted in the original
\* list, and a name with a numeric suffix if and only if count > 1
C18_EnemiesOfGroups ==
    Created =>
        /\ Len(svcRes.value) = dueBefore(Len(groupsGiven))
        /\ \A g \in 1..Len(groupsGiven) :
              groupsGiven[g].type \in DOMAIN enemyTemplates =>
                  \A k \in 0..(groupsGiven[g].count - 1) :
                      LET made == svcRes.value[dueBefore(g - 1) + k + 1]
                          template == enemyTemplates[groupsGiven[g].type]
                      IN  /\ made.id = <<groupsGiven[g].type, g - 1, k>>
                          /\ made.name = IF groupsGiven[g].count > 1
                                         THEN <<template.name, k + 1>>
                                         ELSE <<template.name>>

\* C18 witness: a group of an unknown type came first, a single enemy and a group
\* of several were created after it
C18_Witness ==
    /\ Created
    /\ Len(groupsGiven) = 2
    /\ groupsGiven[1].type = UnknownType /\ groupsGiven[1].count > 0
    /\ groupsGiven[2].count > 1
    /\ Len(svcRes.value) = groupsGiven[2].count
    /\ svcRes.value[2].id = <<groupsGiven[2].type, 1, 1>>

\* the proficiency bonus of the attacker of a call: ceil(level / 4) + 1, 2 without level
proficiencyOf(call) ==
    IF Has(call.attacker, "level")
    THEN (CHOOSE q \in 0..call.attacker.level :
             4 * q >= call.attacker.level /\ 4 * (q - 1) < call.attacker.level) + 1
    ELSE 2

\* the stat that governs the weapon of a call: attack.stat if set, else dexterity if
\* the attack is ranged or has range > 1, else strength
governingStat(call) ==
    IF Has(call.weapon, "stat") THEN call.weapon.stat
    ELSE IF \/ Has(call.weapon, "category") /\ call.weapon.category = "ranged"
            \/ Has(call.weapon, "type") /\ call.weapon.type = "ranged"
            \/ Has(call.weapon, "range") /\ call.weapon.range > 1
         THEN "dexterite"
         ELSE "force"

\* the attacker of a call has the score of the governing stat
hasScore(call) ==
    /\ Has(call.attacker, "stats")
    /\ Has(call.attacker.stats, governingStat(call))

\* floor((score - 10) / 2) for the governing stat
modifierOf(call) ==
    LET score == call.attacker.stats[governingStat(call)]
    IN  CHOOSE m \in -5..10 : 2 * m <= score - 10 /\ score - 10 < 2 * m + 2

\* C19: getAttackBonus returns attack.attackBonus unchanged whenever it is set, and
\* otherwise proficiencyBonus + floor((score - 10) / 2) for the score of the
\* governing stat
C19_AttackBonusFormula ==
    Done("getAttackBonus") =>
        /\ Has(svcCall.weapon, "attackBonus") =>
              svcRes.value = Number(svcCall.weapon.attackBonus)
        /\ (~Has(svcCall.weapon, "attackBonus") /\ hasScore(svcCall)) =>
              svcRes.value = Number(proficiencyOf(svcCall) + modifierOf(svcCall))

\* the formula of C19 for the CombatService of stores/characterStore.js alone
AttackBonusFormulaInStore ==
    (Done("getAttackBonus") /\ svcCall.file = "stores/characterStore.js") =>
        /\ Has(svcCall.weapon, "attackBonus") =>
              svcRes.value = Number(svcCall.weapon.attackBonus)
        /\ (~Has(svcCall.weapon, "attackBonus") /\ hasScore(svcCall)) =>
              svcRes.value = Number(proficiencyOf(svcCall) + modifierOf(svcCall))

\* C20: without attackBonus and without the stats block or the governing stat,
\* getAttackBonus of stores/characterStore.js returns the proficiency bonus alone
C20_FallsBackToProficiency ==
    (/\ Done("getAttackBonus") /\ svcCall.file = "stores/characterStore.js"
     /\ ~Has(svcCall.weapon, "attackBonus") /\ ~hasScore(svcCall))
        => svcRes.value = Number(proficiencyOf(svcCall))

\* the part of C20 for an attacker that has stats but not the governing stat
FallsBackWithoutStat ==
    (/\ Done("getAttackBonus") /\ svcCall.file = "stores/characterStore.js"
     /\ ~Has(svcCall.weapon, "attackBonus") /\ Has(svcCall.attacker, "stats")
     /\ ~hasScore(svcCall))
        => svcRes.value = Number(proficiencyOf(svcCall))

\* the bonus of the spell of a call: spell.damage.bonus, nothing when it is not set
spellBonus(call) ==
    IF Has(call.weapon.damage, "bonus") THEN call.weapon.damage.bonus ELSE 0

\* the spell attack bonus of the caster of a call: proficiency plus the modifier of
\* the spellcasting ability, proficiency alone without a spellcasting block
spellAttackBonusOf(call) ==
    IF Has(call.attacker, "spellcasting")
    THEN LET score == call.attacker.stats[call.attacker.spellcasting.ability]
         IN  proficiencyOf(call)
                + (CHOOSE m \in -5..10 : 2 * m <= score - 10 /\ score - 10 < 2 * m + 2)
    ELSE proficiencyOf(call)

\* C21: an automatic-hit spell rolls no d20 and gives every target, in order, one
\* damage entry of rollDamage(dice) + bonus and no miss; a spell with an attack roll
\* hits on d20 + spell attack bonus >= the target's armor class
C21_SpellResolution ==
    Done("executeSpell") =>
        IF ~svcCall.weapon.requiresAttackRoll
        THEN /\ \A j \in 1..Len(svcRes.value.drawn) : svcRes.value.drawn[j] # "rollD20"
             /\ Len(svcRes.value.damage) = Len(svcCall.targets)
             /\ \A k \in 1..Len(svcCall.targets) :
                   /\ svcRes.value.damage[k].targetId = svcCall.targets[k].id
                   /\ svcRes.value.damage[k].damage
                         = rollDamage(svcCall.weapon.damage.dice, svcCall.rolls[k].dice)
                              + spellBonus(svcCall)
             /\ \A j \in 1..Len(svcRes.value.messages) :
                   svcRes.value.messages[j].type # "miss"
        ELSE \A k \in 1..Len(svcCall.targets) :
                svcCall.rolls[k].d20 # 20 =>
                    (svcRes.value.messages[k + 1].type # "miss"
                        <=> svcCall.rolls[k].d20 + spellAttackBonusOf(svcCall)
                                >= svcCall.targets[k].ac)

\* C21 witness: an automatic-hit spell has been cast at two different targets, one
\* of an armor class a d20 could not reach, and a spell with an attack roll is not
\* this case
C21_Witness ==
    /\ Done("executeSpell") /\ ~svcCall.weapon.requiresAttackRoll
    /\ Len(svcCall.targets) = MaxTargets
    /\ svcCall.targets[1] # svcCall.targets[MaxTargets]
    /\ \E k \in 1..Len(svcCall.targets) :
          svcCall.rolls[k].d20 + spellAttackBonusOf(svcCall) < svcCall.targets[k].ac
    /\ Len(svcRes.value.damage) = MaxTargets

\* the currentHP of the target of a call, held by the target or by its character
targetHP(call) ==
    IF Has(call.targets[1], "character") THEN call.targets[1].character.currentHP
    ELSE call.targets[1].currentHP

\* the result of an attack that was given up for a fallen target
GivenUp(res) ==
    /\ ~res.success /\ res.damage = 0
    /\ Len(res.messages) = 1 /\ res.messages[1].type = "default"
    /\ res.drawn = <<>>

\* C22: executeEntityAttack against a target at currentHP <= 0 returns success =
\* false and damage 0, adds the one message that the target has fallen and rolls
\* neither a d20 nor damage dice, whether the HP is on the target or on its character
C22_FallenTargetIsNotAttacked ==
    (Done("executeEntityAttack") /\ targetHP(svcCall) <= 0) => GivenUp(svcRes.value)

\* the part of C22 for a target that holds its HP on a nested character
FallenNestedTargetIsNotAttacked ==
    (/\ Done("executeEntityAttack") /\ Has(svcCall.targets[1], "character")
     /\ targetHP(svcCall) <= 0)
        => GivenUp(svcRes.value)

\* the operations that resolve an action
Resolvers ==
    {"executePlayerAction", "executeAttack", "executeSpell", "executeEntityAttack",
     "executeCompanionAction"}

noValidAction(call) ==
    call.weapon = Null \/ FieldOr(call.weapon, "type") \notin {"attack", "spell"}

\* C24: executePlayerAction without action, without target or with an action type
\* other than 'attack' and 'spell' rolls no dice and returns no damage entry, no
\* effect and exactly one message, of category 'error'
C24_InvalidActionIsRejected ==
    (Done("executePlayerAction") /\ (noValidAction(svcCall) \/ svcCall.targets = <<>>)) =>
        /\ svcRes.value.drawn = <<>>
        /\ svcRes.value.damage = <<>> /\ svcRes.value.effects = <<>>
        /\ Len(svcRes.value.messages) = 1
        /\ svcRes.value.messages[1].type = "error"

\* C24 witness: an attack was asked for with no target, and was rejected
C24_Witness ==
    /\ Done("executePlayerAction")
    /\ FieldOr(svcCall.weapon, "type") = "attack" /\ svcCall.targets = <<>>
    /\ Len(svcRes.value.messages) = 1

\* a branch of the action of a call raises an exception: an attack with no attack to
\* take from the companion, a protection without target, a taunt without targets
branchRaises(call) ==
    LET action == call.ai.bestAction
    IN  \/ action.type = "attack" /\ ~Has(action, "attack") /\ ~Has(call.attacker, "attacks")
        \/ action.type = "protect" /\ ~Has(action, "target")
        \/ action.type = "taunt" /\ ~Has(action, "targets")

\* the decision module or a branch raises an exception, or there is no action, or
\* its type is unknown
actionFails(call) ==
    \/ call.ai.throws
    \/ call.ai.bestAction = Null
    \/ ~Has(call.gameState, "combatPositions")
    \/ call.ai.bestAction.type
          \notin {"attack", "spell", "heal_support", "protect", "taunt"}
    \/ branchRaises(call)

\* a result that holds nothing of an action
nothingDone(res) ==
    ~res.success /\ res.damage = <<>> /\ res.healing = <<>> /\ res.effects = <<>>

\* C25: when the decision module or a branch raises an exception, or there is no
\* action or an unknown one, executeCompanionAction returns success = false, no
\* damage, healing or effect entry, and one message, which describes the failure
C25_FailureGivesOneMessage ==
    (Done("executeCompanionAction") /\ actionFails(svcCall)) =>
        /\ nothingDone(svcRes.value)
        /\ Len(svcRes.value.messages) = 1
        /\ svcRes.value.messages[1].type \in {"error", "info"}

\* the part of C25 that leaves the number of messages open: nothing is done and the
\* last message describes the failure
FailureGivesNoEntry ==
    (Done("executeCompanionAction") /\ actionFails(svcCall)) =>
        /\ nothingDone(svcRes.value)
        /\ svcRes.value.messages # <<>>
        /\ svcRes.value.messages[Len(svcRes.value.messages)].type \in {"error", "info"}

\* the categories of the narrative log
Categories ==
    {"turn-start", "hit", "miss", "critical", "spell", "spell-hit", "healing", "support",
     "error", "info", "victory", "defeat"}

\* the messages of the result of a call
messagesOf(call, res) ==
    IF call.op = "executeEnemyAttack" THEN <<res>> ELSE res.messages

\* C26: every message the turn manager or the combat service emits carries a
\* category of the enumerated set
C26_MessageCategories ==
    (/\ svcRes.status = "done"
     /\ svcCall.op \in Resolvers \cup {"executeEnemyAttack"}) =>
        \A j \in 1..Len(messagesOf(svcCall, svcRes.value)) :
            addCombatMessage(messagesOf(svcCall, svcRes.value)[j]) \in Categories

\* the part of C26 for the player's actions: executePlayerAction, executeAttack and
\* executeSpell
PlayerMessageCategories ==
    (/\ svcRes.status = "done"
     /\ svcCall.op \in {"executePlayerAction", "executeAttack", "executeSpell"}) =>
        \A j \in 1..Len(svcRes.value.messages) :
            addCombatMessage(svcRes.value.messages[j]) \in Categories

\* the messages of the turn manager but for those of executeEnemyAttack
ManagerMessageCategories ==
    \A j \in 1..Len(emitted) :
        addCombatMessage(emitted[j]) \in Categories \cup {"enemy-hit"}

\* the descriptor s, whole, reads N d M or N d M + B
RECURSIVE allDigits(_, _, _)
allDigits(s, i, j) == i > j \/ (IsDigit(s[i]) /\ allDigits(s, i + 1, j))
ofTheForm(s) ==
    \E i \in 2..(Len(s) - 1) :
        /\ s[i] = "d" /\ allDigits(s, 1, i - 1)
        /\ \/ allDigits(s, i + 1, Len(s))
           \/ \E k \in (i + 2)..(Len(s) - 1) :
                  s[k] = "+" /\ allDigits(s, i + 1, k - 1) /\ allDigits(s, k + 1, Len(s))
\* N, M and B of a descriptor of the form, read from its start
formN(s) == parseInt(s, 1, RunEnd(s, 1))
formM(s) == parseInt(s, RunEnd(s, 1) + 2, RunEnd(s, RunEnd(s, 1) + 2))
formB(s) == LET e == RunEnd(s, RunEnd(s, 1) + 2)
            IN  IF e < Len(s) THEN parseInt(s, e + 2, Len(s)) ELSE 0
\* the result of rollDamage is the sum of N die results of 1..M plus B, within [N+B, N*M+B]
sumOfDice(s, dice, total) ==
    /\ Len(dice) = formN(s)
    /\ \A k \in 1..Len(dice) : dice[k] \in 1..formM(s)
    /\ total = SumSeq(dice) + formB(s)
    /\ total >= formN(s) + formB(s) /\ total <= formN(s) * formM(s) + formB(s)

\* C27: rollDamage returns 0 for every descriptor that is not of the form NdM or NdM+B, and for
\* one of the form the sum of N die results of 1..M plus B; '2d6+3' with two 4s gives 11
C27_RollDamage ==
    Done("rollDamage") =>
        /\ ~ofTheForm(svcCall.descriptor) => svcRes.value.number = 0
        /\ ofTheForm(svcCall.descriptor) =>
               sumOfDice(svcCall.descriptor, svcCall.dice, svcRes.value.number)
        /\ (svcCall.descriptor = <<"2", "d", "6", "+", "3">> /\ svcCall.dice = <<4, 4>>) =>
               svcRes.value.number = 11

\* rollDamage of a descriptor of the form NdM or NdM+B with M >= 1 is the sum of the N dice plus
\* B, and of a descriptor that holds no NdM anywhere it is 0
RollDamageOfTheForm ==
    Done("rollDamage") =>
        /\ (ofTheForm(svcCall.descriptor) /\ formM(svcCall.descriptor) >= 1) =>
               sumOfDice(svcCall.descriptor, svcCall.dice, svcRes.value.number)
        /\ ~HasMatch(svcCall.descriptor) => svcRes.value.number = 0
        /\ (svcCall.descriptor = <<"2", "d", "6", "+", "3">> /\ svcCall.dice = <<4, 4>>) =>
               svcRes.value.number = 11
RollDamageOfTheForm_Witness ==
    /\ Done("rollDamage") /\ svcCall.descriptor = <<"2", "d", "6", "+", "3">>
    /\ svcCall.dice = <<4, 4>> /\ svcRes.value.number = 11

\* the position the caller supplies for the enemy of index, when there is one
suppliedAt(call, index) ==
    /\ Truthy(call.customPositions) /\ Has(call.customPositions, ToString(index))
    /\ Truthy(call.customPositions[ToString(index)])
enemyZone(pos) == pos.x >= 4 /\ pos.x <= 7 /\ pos.y >= 0 /\ pos.y <= 5

\* C28: initializePositions gives every enemy one position under its id, the position supplied
\* at its index when there is one and the default position otherwise, and every default
\* position lies in the enemy zone 4 <= x <= 7, 0 <= y <= 5 of the 8x6 grid
C28_EnemyPositions ==
    Done("initializePositions") =>
        /\ DOMAIN svcRes.value =
               {<<"player">>, <<"companion">>, <<"playerHasMoved">>, <<"companionHasMoved">>}
                   \cup {svcCall.enemies[k].id : k \in 1..Len(svcCall.enemies)}
        /\ \A k \in 1..Len(svcCall.enemies) :
               LET pos == svcRes.value[svcCall.enemies[k].id]
               IN  IF suppliedAt(svcCall, k - 1)
                   THEN pos = svcCall.customPositions[ToString(k - 1)]
                   ELSE /\ pos = getDefaultEnemyPosition(k - 1, Len(svcCall.enemies))
                        /\ enemyZone(pos)
\* more enemies than the zone holds in four rows, one of them placed by the caller
C28_Witness ==
    /\ Done("initializePositions") /\ Len(svcCall.enemies) = MaxPlaced
    /\ suppliedAt(svcCall, 0) /\ ~suppliedAt(svcCall, 1)
    /\ svcRes.value[svcCall.enemies[1].id] = [x |-> 2, y |-> 5]
    /\ svcRes.value[svcCall.enemies[MaxPlaced].id] = [x |-> 4, y |-> 4]

\* the combatant of index k (from 0) of the call's turn order stands
standing(call, k) == call.turnOrder[k + 1].currentHP > 0
\* the index reached from currentTurn by d steps forward
stepped(call, d) == (call.currentTurn + d) % Len(call.turnOrder)
\* the first standing combatant within the first reach steps forward from currentTurn
firstStanding(call, reach) ==
    stepped(call, CHOOSE d \in 1..reach :
                     standing(call, stepped(call, d))
                         /\ \A e \in 1..(d - 1) : ~standing(call, stepped(call, e)))

\* C29: skipToNextAliveCombatant returns null only when no combatant of turnOrder has
\* currentHP > 0, and otherwise the first one standing found by stepping forward from
\* currentTurn over all turnOrder.length entries, currentTurn itself last
C29_SkipFindsEveryStanding ==
    (Done("skipToNextAliveCombatant") /\ svcCall.currentTurn < Len(svcCall.turnOrder)) =>
        IF \E k \in 0..(Len(svcCall.turnOrder) - 1) : standing(svcCall, k)
        THEN svcRes.value = Number(firstStanding(svcCall, Len(svcCall.turnOrder)))
        ELSE svcRes.value = Null

\* skipToNextAliveCombatant returns the first standing combatant among the others, stepping
\* forward from currentTurn, and null when none of the others stands
SkipFindsTheOthers ==
    (Done("skipToNextAliveCombatant") /\ svcCall.currentTurn < Len(svcCall.turnOrder)) =>
        IF \E d \in 1..(Len(svcCall.turnOrder) - 1) : standing(svcCall, stepped(svcCall, d))
        THEN svcRes.value = Number(firstStanding(svcCall, Len(svcCall.turnOrder) - 1))
        ELSE svcRes.value = Null
SkipFindsTheOthers_Witness ==
    /\ Done("skipToNextAliveCombatant") /\ Len(svcCall.turnOrder) = MaxOrder
    /\ svcCall.currentTurn = 2 /\ svcRes.value = Number(1)

\* the phase changes of the state machine setup -> combat <-> turns -> victory, defeat
followsStateMachine(from, to) ==
    \/ from = "setup" /\ to = "combat"
    \/ from = "combat" /\ to \in TurnPhases \cup Terminal
    \/ from \in TurnPhases /\ to \in {"combat"} \cup Terminal
\* the step is one of the component: an effect, a timer's callback or its continuation
byManager(op) == op \in {"turnEffect", "endEffect", "advanceTurn"} \cup TurnHandlers

\* C30: every phase change the turn manager makes follows the state machine
\* setup -> combat <-> {player-turn, companion-turn, enemy-turn} -> {victory, defeat}, and it
\* sets neither victory nor defeat while the phase is setup
C30_PhaseChangesFollowStateMachine ==
    [][(byManager(lastOp') /\ phase' # phase) => followsStateMachine(phase, phase')]_vars

\* the manager sets neither victory nor defeat while the phase is setup
NoOutcomeDuringSetup ==
    [][(byManager(lastOp') /\ phase = "setup") => phase' \notin Terminal]_vars
\* a phase change of the manager that starts in a phase other than victory and defeat and
\* does not start in setup follows the state machine
PhaseChangesOfRunningEncounter ==
    [][(byManager(lastOp') /\ phase' # phase /\ phase \notin Terminal \cup {"setup"})
          => followsStateMachine(phase, phase')]_vars

\* C31: after every action of the character store selectedCharacter equals playerCharacter
C31_SelectedIsPlayerCharacter == store.selectedCharacter = store.playerCharacter

\* a selectedCharacter that differs from playerCharacter is one the store held before: the
\* player character was since set to null or changed by updatePlayerCharacter
SelectedIsSetWithPlayer ==
    [][(Truthy(store'.playerCharacter) /\ store'.playerCharacter # store.playerCharacter
           /\ store'.selectedCharacter # store'.playerCharacter)
          => \E updates \in {[hitDice |-> MaxHitDice], [currentHP |-> 1]} :
                 store'.playerCharacter = Spread(store.playerCharacter, updates)]_vars

\* the step appends the announcement of this outcome to the log
announces(end) == \E j \in 1..Len(emitted') : addCombatMessage(emitted'[j]) = end

\* C32: within one encounter the victory announcement is appended to the log at most once,
\* and so is the defeat announcement
C32_OutcomeAnnouncedOnce ==
    [][\A end \in Terminal : (lastOp' = "endEffect" /\ announces(end)) => outcome # end]_vars

\* an outcome is announced by the end-of-combat effect only, in a render whose phase is
\* neither victory nor defeat
AnnouncedOutsideTerminal ==
    [][\A end \in Terminal :
          announces(end) => (lastOp' = "endEffect" /\ rPhase \notin Terminal)]_vars

\* the turn order of the combatants of a call of checkCombatEnd
typed(c, type) == Spread(c, [type |-> type])
orderOf(call) ==
    <<typed(call.player, "player")>>
        \o (IF Truthy(call.companion) THEN <<typed(call.companion, "companion")>> ELSE <<>>)
        \o [k \in 1..Len(call.enemies) |-> typed(call.enemies[k], "enemy")]
\* what the end-of-combat check of the turn manager decides for the combatants of the call
managerOutcome(call) ==
    LET end == endOfCombatOf("combat", call.enemies, orderOf(call))
    IN  IF end = "none" THEN "null" ELSE end
everyoneDown(call) ==
    /\ enemiesDown(call) /\ call.player.currentHP <= 0
    /\ (Truthy(call.companion) => call.companion.currentHP <= 0)

\* C33: the end-of-combat check of the turn manager and checkCombatEnd decide the same outcome
\* for every combination of player, companion and enemy HP, everyone defeated included
C33_SameOutcome == Done("checkCombatEnd") => svcRes.value = managerOutcome(svcCall)

\* the two checks decide the same outcome unless all enemies and all allies are defeated, and
\* then the manager decides victory and checkCombatEnd defeat
SameOutcomeUnlessEveryoneDown ==
    Done("checkCombatEnd") =>
        IF everyoneDown(svcCall)
        THEN managerOutcome(svcCall) = "victory" /\ svcRes.value = "defeat"
        ELSE svcRes.value = managerOutcome(svcCall)
SameOutcomeUnlessEveryoneDown_Witness ==
    /\ Done("checkCombatEnd") /\ everyoneDown(svcCall) /\ Len(svcCall.enemies) = MaxEnemies
    /\ Truthy(svcCall.companion)

\* the damage and healing entries of a result
entriesOf(res) == res.damage \o (IF Has(res, "healing") THEN res.healing ELSE <<>>)
\* the target of the companion's action, when the call gives one that has an id
targetWithId(call) ==
    /\ Truthy(call.ai.bestAction) /\ Has(call.ai.bestAction, "target")
    /\ Has(call.ai.bestAction.target, "id")
playerEntriesNameTargets ==
    (svcRes.status = "done" /\ svcCall.op \in {"executeAttack", "executeSpell"}) =>
        \A j \in 1..Len(svcRes.value.damage) :
            \E k \in 1..Len(svcCall.targets) :
                svcRes.value.damage[j].targetId = svcCall.targets[k].id
companionEntriesNameTarget(types) ==
    (/\ Done("executeCompanionAction") /\ targetWithId(svcCall)
     /\ svcCall.ai.bestAction.type \in types) =>
        \A j \in 1..Len(entriesOf(svcRes.value)) :
            entriesOf(svcRes.value)[j].targetId = svcCall.ai.bestAction.target.id

\* C34: every damage or healing entry a resolver returns has the id of the combatant that was
\* targeted as its targetId
C34_EntriesNameTheTarget ==
    /\ playerEntriesNameTargets
    /\ companionEntriesNameTarget({"attack", "spell", "heal_support"})

\* the entries of executeAttack, executeSpell and of the companion's heal name the target by
\* its id
EntriesOfPlayerAndHeal ==
    /\ playerEntriesNameTargets
    /\ companionEntriesNameTarget({"heal_support"})
EntriesOfPlayerAndHeal_Witness ==
    /\ Done("executeCompanionAction") /\ targetWithId(svcCall)
    /\ svcCall.ai.bestAction.type = "heal_support" /\ Len(svcRes.value.healing) = 1
\* the damage entries of the companion's attack and of Trait de feu carry the target's name
CompanionDamageNamesByName ==
    (Done("executeCompanionAction") /\ targetWithId(svcCall)) =>
        \A j \in 1..Len(svcRes.value.damage) :
            svcRes.value.damage[j].targetId = svcCall.ai.bestAction.target.name

\* the amounts of the damage and healing entries of the result of a call
amountsOf(call, res) ==
    IF call.op = "executeEntityAttack" THEN {res.damage}
    ELSE {res.damage[j].damage : j \in 1..Len(res.damage)}
             \cup (IF Has(res, "healing")
                   THEN {res.healing[j].amount : j \in 1..Len(res.healing)} ELSE {})
fireBolt(call) ==
    /\ call.op = "executeCompanionAction" /\ Truthy(call.ai.bestAction)
    /\ call.ai.bestAction.type = "spell" /\ call.ai.bestAction.spell = "Trait de feu"

\* C35: every damage entry and every healing entry of executeAttack, executeSpell,
\* executeEntityAttack, executeCompanionSpell and executeCompanionHeal has an amount >= 0
C35_AmountsAreNotNegative ==
    (svcRes.status = "done" /\ svcCall.op \in Resolvers) =>
        \A amount \in amountsOf(svcCall, svcRes.value) : amount >= 0

\* the amounts are not negative in every resolver but the companion's Trait de feu, whose
\* damage is the d10 plus the modifier of charisme
AmountsButFireBolt ==
    (svcRes.status = "done" /\ svcCall.op \in Resolvers) =>
        \A amount \in amountsOf(svcCall, svcRes.value) :
            IF fireBolt(svcCall)
            THEN amount = svcCall.rolls.die + getModifier(svcCall.attacker.stats.charisme)
            ELSE amount >= 0
AmountsButFireBolt_Witness ==
    /\ svcRes.status = "done" /\ fireBolt(svcCall)
    /\ \E amount \in amountsOf(svcCall, svcRes.value) : amount < 0

\* initializeCombat has returned a combat state
Initialized == Done("initializeCombat") /\ ~Has(svcRes.value, "error")
\* every group of the encounter names a template of the registry and counts at least one
groupsOfRegistry(encounterData) ==
    \A g \in 1..Len(encounterData.enemies) :
        /\ encounterData.enemies[g].type \in DOMAIN enemyTemplates
        /\ encounterData.enemies[g].count >= 1
atLeastOneEnemy ==
    /\ Len(svcRes.value.enemies) >= 1
    /\ checkCombatEnd(svcCall.player, svcCall.companion, svcRes.value.enemies) # "victory"

\* C36: every combat state initializeCombat returns without error holds at least one enemy, so
\* that checkCombatEnd does not decide victory on it
C36_InitializedHasEnemies == Initialized => atLeastOneEnemy

\* a combat state returned for an encounter whose groups are all of the registry, with a
\* count of at least one, holds at least one enemy
InitializedFromRegistry ==
    (Initialized /\ groupsOfRegistry(svcCall.encounterData)) => atLeastOneEnemy
InitializedFromRegistry_Witness ==
    /\ Initialized /\ groupsOfRegistry(svcCall.encounterData)
    /\ Len(svcRes.value.enemies) = MaxEnemies
\* an encounter whose groups give no enemy is initialized without error, and is a victory
InitializedEmpty ==
    (Initialized /\ ~groupsOfRegistry(svcCall.encounterData)) =>
        (/\ svcRes.value.enemies = <<>>
         /\ checkCombatEnd(svcCall.player, svcCall.companion, <<>>) = "victory")

\* the cells of the combatants in the positions a call of initializePositions returns: the
\* player, the companion when there is one, the enemies by index
cellsOf(call, positions) ==
    <<positions[<<"player">>]>>
        \o (IF Truthy(positions[<<"companion">>]) THEN <<positions[<<"companion">>]>> ELSE <<>>)
        \o [k \in 1..Len(call.enemies) |-> positions[call.enemies[k].id]]
pairwiseDistinct(cells) == \A i, j \in 1..Len(cells) : i # j => cells[i] # cells[j]
\* the positions the caller supplies for the enemies of the call
suppliedCells(call) ==
    LET at == {k \in 0..(Len(call.enemies) - 1) : suppliedAt(call, k)}
    IN  [k \in at |-> call.customPositions[ToString(k)]]
\* they are pairwise distinct and differ from the cells of the player and the companion
suppliedDistinct(call) ==
    LET cells == suppliedCells(call)
    IN  /\ \A i, j \in DOMAIN cells : i # j => cells[i] # cells[j]
        /\ \A i \in DOMAIN cells : cells[i] \notin {[x |-> 1, y |-> 2], [x |-> 0, y |-> 2]}
noneSupplied(call) == DOMAIN suppliedCells(call) = {}
\* the number of cells of the enemy zone that the default positions use: 4 columns, rows 1..4
ZoneCells == 16

\* C37: after initializePositions no two combatants occupy the same cell, for any number of
\* enemies by default and for custom positions that are pairwise distinct and differ from the
\* cells of the player and the companion
C37_NoSharedCell ==
    (Done("initializePositions") /\ suppliedDistinct(svcCall)) =>
        pairwiseDistinct(cellsOf(svcCall, svcRes.value))

\* with default positions only and at most 16 enemies no two combatants share a cell
DefaultCellsDistinct ==
    (/\ Done("initializePositions") /\ noneSupplied(svcCall)
     /\ Len(svcCall.enemies) <= ZoneCells) =>
        pairwiseDistinct(cellsOf(svcCall, svcRes.value))
DefaultCellsDistinct_Witness ==
    /\ Done("initializePositions") /\ noneSupplied(svcCall)
    /\ Len(svcCall.enemies) = ZoneCells /\ Truthy(svcCall.companion)
\* with more than 16 enemies two of them share a cell of the last row
DefaultCellsShared ==
    (/\ Done("initializePositions") /\ noneSupplied(svcCall)
     /\ Len(svcCall.enemies) > ZoneCells) =>
        svcRes.value[svcCall.enemies[13].id] = svcRes.value[svcCall.enemies[17].id]

\* the item units a character holds: the quantities of the inventory entries (1 without
\* quantity) and one per slot of the equipment that is filled
unitsOf(character) ==
    SumSeq([k \in 1..Len(character.inventory) |->
               IF Has(character.inventory[k], "quantity") THEN character.inventory[k].quantity
               ELSE 1])
        + (IF Has(character, "equipment") THEN Cardinality(DOMAIN character.equipment) ELSE 0)
equipmentOf(character) == IF Has(character, "equipment") THEN character.equipment ELSE <<>>
holds(character, itemId) == findIndex(character.inventory, itemId) # 0
\* the step conserves the item units of the character
conserved(before, after) == unitsOf(after) = unitsOf(before)
\* an item the step has replaced in a slot is in the inventory afterwards
replacedReturns(before, after) ==
    \A sl \in DOMAIN equipmentOf(before) \cap DOMAIN equipmentOf(after) :
        equipmentOf(after)[sl] # equipmentOf(before)[sl] =>
            holds(after, equipmentOf(before)[sl])
\* equipItem(x) followed by unequipItem(x) restores the inventory and the equipment
roundTrip(character, x) ==
    equipped(character, x) # character =>
        LET back == unequipped(equipped(character, x), x)
        IN  back.inventory = character.inventory /\ equipmentOf(back) = equipmentOf(character)

\* C38: every equipItem and unequipItem conserves the item units a character holds, an item
\* replaced in a slot returns to the inventory, and equipItem(x) followed by unequipItem(x)
\* restores the inventory and the equipment
C38_ItemsConserved ==
    [][\A t \in Targets :
          Truthy(store[slot(t)]) =>
              /\ conserved(store[slot(t)], store'[slot(t)])
              /\ replacedReturns(store[slot(t)], store'[slot(t)])
              /\ \A x \in ItemIds : roundTrip(store[slot(t)], x)]_vars

\* unequipItem of a weapon of the registry conserves the units, and so does equipItem of an
\* item held once in the inventory by a character who has nothing equipped
ConservingSteps ==
    [][\A t \in Targets : \A x \in ItemIds :
          LET c == store[slot(t)]
          IN  Truthy(c) =>
                  /\ (Has(weapons, x) /\ store'[slot(t)] = unequipped(c, x)) =>
                         conserved(c, store'[slot(t)])
                  /\ (/\ store'[slot(t)] = equipped(c, x) /\ holds(c, x)
                      /\ ~Has(c.inventory[findIndex(c.inventory, x)], "quantity")
                      /\ equipmentOf(c) = <<>>) =>
                         conserved(c, store'[slot(t)])]_vars

====
